---- MODULE Spec2Model ----
(***************************************************************************)
(* Session-memory engine of taskmaster_mcp: the memory store, the          *)
(* ingestion pipeline (saveSessionMemory) and the ranked search            *)
(* (searchSessionMemories), as a state machine.                            *)
(*                                                                         *)
(* Strings.  A string is modelled by its image under split(/\s+/): the     *)
(* sequence of its maximal non-whitespace pieces, with an empty piece at   *)
(* an end where the string starts or ends with whitespace.  "" is <<"">>,  *)
(* " " is <<"", "">>, "a b" is <<"a", "b">>.  Concatenation joins the last *)
(* piece of the left string with the first piece of the right one.  The    *)
(* kind and length of a whitespace run is not kept: every run counts as    *)
(* one character.  What the code finds out about the characters of a piece *)
(* (a pattern inside it, its lower-case form) is kept in tables that hold   *)
(* for the vocabulary of the model.                                        *)
(*                                                                         *)
(* Time.  The clock counts minutes; an ISO timestamp is the minute it was  *)
(* taken at.  The clock never runs backwards.  Time passes between calls   *)
(* and while a request to the backend is out: the step that follows takes  *)
(* the minutes that went by as its input.  Reading and writing the file    *)
(* take no time at this resolution.                                        *)
(*                                                                         *)
(* Numbers.  Scores are kept as exact integers: importance in hundredths,  *)
(* raw relevance in hundredths, similarities in thousandths or as cross-   *)
(* multiplied comparisons.                                                 *)
(***************************************************************************)
EXTENDS Integers, Sequences, FiniteSets, TLC

VARIABLES
    file,       \* session_memories.json: the persisted sequence of memories
    fileState,  \* "absent" | "invalid" | "valid": whether the file exists and parses
    now,        \* Date.now(), in minutes
    nextUuid,   \* randomUUID(): the next unused identifier
    calls,      \* calls started so far (bounds the exploration)
    pc,         \* pc[p]: where caller p's saveSessionMemory is suspended
    loc,        \* loc[p]: the locals of caller p's current (or last) call
    ret,        \* ret[p]: how caller p's last call ended
    found,      \* the last searchSessionMemories call: its inputs and result,
                \* and in previous the search before it
    rare,       \* rare events taken so far (bounds the exploration)
    probe       \* a function of the engine evaluated on its own: its name,
                \* its input and, once it has returned, its result

vars == <<file, fileState, now, nextUuid, calls, pc, loc, ret, found, rare, probe>>

----------------------------------------------------------------------------
(* Bounds of the exploration *)

MaxCalls == 2
MaxChainCalls == 43
MaxRare == 1
MaxSearchSaves == 3

(* Program constants *)

PersistCap == 50
WorkingCap == 40
WorkingKeep == 35
SessionWindow == 30
ConsolidateWindow == 30
MinWordLen == 3

----------------------------------------------------------------------------
(* Options: an absent value is <<>>, a present value v is <<v>>. *)

None == <<>>
Some(v) == <<v>>

Max(a, b) == IF a >= b THEN a ELSE b
Min(a, b) == IF a <= b THEN a ELSE b

Take(s, n) == SubSeq(s, 1, Min(n, Len(s)))

Range(s) == {s[i] : i \in 1..Len(s)}

\* The element of a set of one element
Only(S) == CHOOSE x \in S : TRUE

----------------------------------------------------------------------------
(* Strings *)

Space == <<"", "">>

\* a + b for strings a and b
StrCat(a, b) ==
    SubSeq(a, 1, Len(a) - 1) \o <<a[Len(a)] \o b[1]>> \o Tail(b)

\* s.trim().length === 0
TrimIsEmpty(s) == \A i \in 1..Len(s) : s[i] = ""

\* toLowerCase / toUpperCase on the pieces the model uses: the vocabulary is
\* lower case but for these.
ToLower(w) ==
    CASE w = "CONTINUED" -> "continued"
      [] w = "Decided" -> "decided"
      [] w = "[DISCOVERY]" -> "[discovery]"
      [] w = "[DECISION]" -> "[decision]"
      [] w = "[IMPLEMENTATION]" -> "[implementation]"
      [] w = "[PROBLEM_SOLVING]" -> "[problem_solving]"
      [] w = "[LEARNING]" -> "[learning]"
      [] w = "[PLANNING]" -> "[planning]"
      [] w = "[REFLECTION]" -> "[reflection]"
      [] OTHER -> w

ToUpper(w) ==
    CASE w = "discovery" -> "DISCOVERY"
      [] w = "decision" -> "DECISION"
      [] w = "implementation" -> "IMPLEMENTATION"
      [] w = "problem_solving" -> "PROBLEM_SOLVING"
      [] w = "learning" -> "LEARNING"
      [] w = "planning" -> "PLANNING"
      [] w = "reflection" -> "REFLECTION"
      [] OTHER -> w

\* s.toLowerCase()
LowerStr(s) == [i \in 1..Len(s) |-> ToLower(s[i])]

\* The places where a pattern the code looks for (with includes or indexOf)
\* lies inside a longer piece of the vocabulary: <<piece, pattern, index>>.
\* No piece of the vocabulary lies inside another one or inside a pattern.
ProperSubstrings ==
    { <<"[decision]", "decision", 1>>, <<"[decision]", "is", 4>>,
      <<"[discovery]", "discovery", 1>>, <<"[discovery]", "is", 2>>,
      <<"[implementation]", "implement", 1>>,
      <<"[implementation]", "implementation", 1>>,
      <<"[learning]", "learn", 1>>, <<"[learning]", "learning", 1>>,
      <<"[planning]", "plan", 1>>, <<"[planning]", "planning", 1>>,
      <<"[problem_solving]", "problem", 1>>,
      <<"[problem_solving]", "problem_solving", 1>>,
      <<"[reflection]", "reflection", 1>>,
      <<"built", "ui", 1>>,
      <<"finished", "is", 3>> }

\* piece.includes(pattern), for a pattern without whitespace
PieceIncludes(piece, pattern) ==
    piece = pattern \/ \E t \in ProperSubstrings : t[1] = piece /\ t[2] = pattern

\* piece.indexOf(pattern), where the piece includes the pattern
PieceIndexOf(piece, pattern) ==
    IF piece = pattern THEN 0
    ELSE (CHOOSE t \in ProperSubstrings : t[1] = piece /\ t[2] = pattern)[3]

\* The patterns of the code that have whitespace in them
PhraseWords(pattern) ==
    CASE pattern = "learned that" -> <<"learned", "that">>
      [] pattern = "figured out" -> <<"figured", "out">>
      [] pattern = "went with" -> <<"went", "with">>
      [] pattern = "worked around" -> <<"worked", "around">>
      [] pattern = "going to" -> <<"going", "to">>
      [] pattern = "next steps" -> <<"next", "steps">>
      [] pattern = "user experience" -> <<"user", "experience">>
      [] pattern = "this week" -> <<"this", "week">>
      [] pattern = "last month" -> <<"last", "month">>
      [] pattern = "last year" -> <<"last", "year">>
      [] OTHER -> <<pattern>>

\* s.includes(words), the pattern given by its pieces.  No piece of the
\* vocabulary ends with the first word of a longer pattern or starts with
\* its last word, so a pattern of several words matches piece by piece.
IncludesSeq(s, words) ==
    IF Len(words) = 1
    THEN \E i \in 1..Len(s) : PieceIncludes(s[i], words[1])
    ELSE \E i \in 1..(Len(s) - Len(words) + 1) :
            \A k \in 1..Len(words) : s[i + k - 1] = words[k]

\* s.includes(pattern)
Includes(s, pattern) == IncludesSeq(s, PhraseWords(pattern))

\* The characters before piece i of s
RECURSIVE Offset(_, _)
Offset(s, i) == IF i = 1 THEN 0 ELSE Offset(s, i - 1) + Len(s[i - 1]) + 1

\* s.indexOf(pattern), for a pattern without whitespace that s includes
IndexOf(s, pattern) ==
    LET i == CHOOSE i \in 1..Len(s) :
                 /\ PieceIncludes(s[i], pattern)
                 /\ \A j \in 1..(i - 1) : ~PieceIncludes(s[j], pattern)
    IN Offset(s, i) + PieceIndexOf(s[i], pattern)

\* s.trim()
RECURSIVE TrimStart(_)
TrimStart(s) == IF Len(s) > 1 /\ s[1] = "" THEN TrimStart(Tail(s)) ELSE s

RECURSIVE TrimEnd(_)
TrimEnd(s) ==
    IF Len(s) > 1 /\ s[Len(s)] = "" THEN TrimEnd(SubSeq(s, 1, Len(s) - 1)) ELSE s

Trim(s) == TrimEnd(TrimStart(s))

\* new Set(s.toLowerCase().split(/\s+/).filter(w => w.length > 3))
WordSet(s) == {w \in Range(LowerStr(s)) : Len(w) > MinWordLen}

----------------------------------------------------------------------------
(* Sorting: Array.prototype.sort is stable *)

\* Inserts the pair kv = <<key, value>> behind every pair whose key is at
\* least as large.
RECURSIVE InsertDesc(_, _)
InsertDesc(kv, s) ==
    IF s = <<>> THEN <<kv>>
    ELSE IF Head(s)[1] >= kv[1] THEN <<Head(s)>> \o InsertDesc(kv, Tail(s))
    ELSE <<kv>> \o s

RECURSIVE SortPairsDesc(_, _)
SortPairsDesc(s, acc) ==
    IF s = <<>> THEN acc
    ELSE SortPairsDesc(Tail(s), InsertDesc(Head(s), acc))

\* memories.sort((a, b) => new Date(b.created).getTime() - new Date(a.created).getTime())
SortByCreatedDesc(memories) ==
    LET pairs == [i \in 1..Len(memories) |-> <<memories[i].created, memories[i]>>]
        sorted == SortPairsDesc(pairs, <<>>)
    IN [i \in 1..Len(sorted) |-> sorted[i][2]]

----------------------------------------------------------------------------
(* Memory store *)

\* A load that returned the memories in the order of the file.
loadSessionMemories_Unsorted ==
    IF fileState = "valid" THEN file ELSE <<>>

loadSessionMemories ==
    IF fileState = "valid" THEN SortByCreatedDesc(file) ELSE <<>>

\* The collection that saveSessionMemories writes
TrimmedMemories_All(memories) == memories

TrimmedMemories(memories) == Take(memories, PersistCap)

saveSessionMemories(memories) ==
    /\ file' = TrimmedMemories(memories)
    /\ fileState' = "valid"

generateSessionId_Inclusive(memories, time, fresh) ==
    IF Len(memories) = 0 THEN <<fresh, 1>>
    ELSE IF time - memories[1].created <= SessionWindow
         THEN <<memories[1].session_id, 0>>
         ELSE <<fresh, 1>>

\* randomUUID() is modelled by a counter: each call returns an unused value.
\* The result is <<session id, identifiers consumed>>.
generateSessionId(memories, time, fresh) ==
    IF Len(memories) = 0 THEN <<fresh, 1>>
    ELSE IF time - memories[1].created < SessionWindow
         THEN <<memories[1].session_id, 0>>
         ELSE <<fresh, 1>>

----------------------------------------------------------------------------
(* Ingestion: content analysis *)

CategoryOrder ==
    <<"discovery", "decision", "implementation", "problem_solving",
      "learning", "planning", "reflection">>

categoryIndicators(cat) ==
    CASE cat = "discovery" ->
           {"discovered", "found", "realized", "noticed", "learned that",
            "figured out", "breakthrough"}
      [] cat = "decision" ->
           {"decided", "chose", "selected", "picked", "went with",
            "concluded", "determined"}
      [] cat = "implementation" ->
           {"implemented", "built", "created", "developed", "coded",
            "added", "integrated"}
      [] cat = "problem_solving" ->
           {"fixed", "solved", "resolved", "debugged", "troubleshot",
            "worked around", "issue"}
      [] cat = "learning" ->
           {"learned", "understood", "grasped", "studied", "researched",
            "explored", "investigated"}
      [] cat = "planning" ->
           {"planning", "will", "going to", "next steps", "roadmap",
            "strategy", "approach"}
      [] cat = "reflection" ->
           {"thinking", "considering", "reflecting", "analyzing",
            "reviewing", "evaluating"}

\* indicators.filter(indicator => lowerContent.includes(indicator)).length
IndicatorMatches(lowerContent, cat) ==
    Cardinality({ind \in categoryIndicators(cat) : Includes(lowerContent, ind)})

\* The forEach of determineCategory from position i on, with the running
\* maximum and the best category so far.
RECURSIVE CategoryScan(_, _, _, _)
CategoryScan(lowerContent, i, maxMatches, bestCategory) ==
    IF i > Len(CategoryOrder) THEN bestCategory
    ELSE LET matches == IndicatorMatches(lowerContent, CategoryOrder[i])
         IN IF matches > maxMatches
            THEN CategoryScan(lowerContent, i + 1, matches, CategoryOrder[i])
            ELSE CategoryScan(lowerContent, i + 1, maxMatches, bestCategory)

\* A classification that starts from the first category declared
determineCategory_FirstDeclared(lowerContent) ==
    CategoryScan(lowerContent, 1, 0, CategoryOrder[1])

determineCategory(lowerContent) ==
    CategoryScan(lowerContent, 1, 0, "reflection")

importantTerms ==
    {"architecture", "security", "performance", "scalability",
     "user experience", "critical", "major", "significant"}

\* content.length: the pieces and one character for each whitespace run
RECURSIVE SumLen(_)
SumLen(s) == IF s = <<>> THEN 0 ELSE Len(Head(s)) + SumLen(Tail(s))

StrLength(s) == SumLen(s) + Len(s) - 1

\* The importance of analyzeMemoryContent, in hundredths
Importance(content, category) ==
    LET lowerContent == LowerStr(content)
        terms == Cardinality({t \in importantTerms : Includes(lowerContent, t)})
        base == 50 + terms * 10
        cat == IF category \in {"decision", "problem_solving"} THEN 20
               ELSE IF category = "discovery" THEN 15 ELSE 0
        long1 == IF StrLength(content) > 200 THEN 10 ELSE 0
        long2 == IF StrLength(content) > 500 THEN 10 ELSE 0
    IN Min(base + cat + long1 + long2, 100)

analyzeMemoryContent(content) ==
    LET category == determineCategory(LowerStr(content))
    IN [category |-> category, importance |-> Importance(content, category)]

processMemoryContentSimple(content, analysis) ==
    IF analysis.importance > 80 THEN content
    ELSE IF /\ analysis.importance > 60
            /\ ~Includes(LowerStr(content), analysis.category)
         THEN StrCat(StrCat(<<"[" \o ToUpper(analysis.category) \o "]">>, Space),
                     content)
         ELSE content

----------------------------------------------------------------------------
(* Ingestion: consolidation check and capacity *)

\* similarity > 0.7, with similarity = common / max(|new|, |existing|); a
\* quotient 0/0 is NaN, which is not greater than 0.7
SimilarEnough(newWords, existingWords) ==
    Cardinality(newWords \cap existingWords) * 10
        > 7 * Max(Cardinality(newWords), Cardinality(existingWords))

\* The memories of existingMemories created less than 30 minutes ago, in order
RECURSIVE SelectSeq2(_, _)
SelectSeq2(s, time) ==
    IF s = <<>> THEN <<>>
    ELSE IF time - Head(s).created < ConsolidateWindow
         THEN <<Head(s)>> \o SelectSeq2(Tail(s), time)
         ELSE SelectSeq2(Tail(s), time)

recentMemories(existingMemories, time) == SelectSeq2(existingMemories, time)

\* A consolidation check that takes the last recent memory that is similar
\* enough
shouldConsolidateMemory_Last(newContent, existingMemories, time) ==
    LET recent == recentMemories(existingMemories, time)
        newContentWords == WordSet(newContent)
        hits == {i \in 1..Len(recent) :
                    SimilarEnough(newContentWords, WordSet(recent[i].content))}
    IN IF hits = {} THEN None
       ELSE Some(recent[CHOOSE i \in hits : \A j \in hits : i >= j])

\* The target of the consolidation, or None: the first recent memory that is
\* similar enough.
shouldConsolidateMemory(newContent, existingMemories, time) ==
    LET recent == recentMemories(existingMemories, time)
        newContentWords == WordSet(newContent)
        hits == {i \in 1..Len(recent) :
                    SimilarEnough(newContentWords, WordSet(recent[i].content))}
    IN IF hits = {} THEN None
       ELSE Some(recent[CHOOSE i \in hits : \A j \in hits : i <= j])

\* No capacity limit
manageMemoryCapacitySimple_Unlimited(memories) == memories

\* A capacity limit applied as soon as the kept number is passed
manageMemoryCapacitySimple_Early(memories) ==
    IF Len(memories) <= WorkingKeep THEN memories
    ELSE Take(SortByCreatedDesc(memories), WorkingKeep)

manageMemoryCapacitySimple_KeepCap(memories) ==
    IF Len(memories) <= WorkingCap THEN memories
    ELSE Take(SortByCreatedDesc(memories), WorkingCap + 1)

manageMemoryCapacitySimple(memories) ==
    IF Len(memories) <= WorkingCap THEN memories
    ELSE Take(SortByCreatedDesc(memories), WorkingKeep)

\* "\n\n--- CONTINUED ---\n\n"
ContinuedMarker == <<"", "---", "CONTINUED", "---", "">>

\* A consolidation that puts the new content in front of the old
consolidatedContent_Prepend(targetContent, newContent) ==
    StrCat(StrCat(newContent, ContinuedMarker), targetContent)

consolidatedContent_NoMarker(targetContent, newContent) ==
    StrCat(StrCat(targetContent, Space), newContent)

consolidatedContent(targetContent, newContent) ==
    StrCat(StrCat(targetContent, ContinuedMarker), newContent)

----------------------------------------------------------------------------
(* The embedding and chat backend: what a request can come back with *)

\* fetch threw, the status was not ok, the body had no embedding, or it had one
EmbeddingVectors == {<<1, 0>>, <<0, 1>>, <<-1, 0>>}

EmbeddingReplies ==
    {[kind |-> k, embedding |-> <<>>] : k \in {"throw", "http_error", "bad_format"}}
        \cup {[kind |-> "ok", embedding |-> v] : v \in EmbeddingVectors}

FailedEmbeddingReplies == {r \in EmbeddingReplies : r.kind # "ok"}

\* What a call gives back: a value, or an exception that goes on to the caller
Returns(v) == [threw |-> FALSE, value |-> v]
Throws == [threw |-> TRUE, value |-> None]

\* try { fetch ... } catch { return null }
generateSingleEmbedding(reply) ==
    Returns(IF reply.kind = "ok" THEN Some(reply.embedding) ELSE None)

generateAIEmbedding_NoCatch(reply) ==
    IF reply.kind = "throw" THEN Throws ELSE generateSingleEmbedding(reply)

\* The texts of the model fit one chunk (at most 32000 characters), so the
\* embedding of a text is that of its single chunk; whatever is thrown on the
\* way is caught and gives null.
generateAIEmbedding(reply) ==
    LET single == generateSingleEmbedding(reply)
    IN IF single.threw THEN Returns(None) ELSE single

AI_EMBEDDING_MODEL == "mistral-embed"

BasicStopWords ==
    {"that", "this", "with", "from", "they", "were", "been", "have", "will",
     "would", "could", "should"}

RECURSIVE Dedup(_, _)
Dedup(s, seen) ==
    IF s = <<>> THEN <<>>
    ELSE IF Head(s) \in seen THEN Dedup(Tail(s), seen)
         ELSE <<Head(s)>> \o Dedup(Tail(s), seen \cup {Head(s)})

extractBasicTopics(content) ==
    LET words == LowerStr(content)
        isTopic(w) == Len(w) > 4 /\ w \notin BasicStopWords
        keys == Dedup(SelectSeq(words, isTopic), {})
        count(w) == Cardinality({i \in 1..Len(words) : words[i] = w})
        sorted == SortPairsDesc([i \in 1..Len(keys) |-> <<count(keys[i]), keys[i]>>], <<>>)
    IN [i \in 1..Min(5, Len(sorted)) |-> sorted[i][2]]

actionWords ==
    <<"implemented", "built", "created", "developed", "designed", "planned",
      "analyzed", "researched", "learned", "studied", "discovered", "found",
      "solved", "fixed", "improved", "optimized", "decided", "chose",
      "selected", "completed", "finished", "started", "began", "organized",
      "managed", "coordinated", "collaborated", "discussed", "presented",
      "wrote", "documented">>

extractBasicActions(content) ==
    LET contentLower == LowerStr(content)
        isIn(a) == Includes(contentLower, a)
    IN Take(SelectSeq(actionWords, isIn), 3)

\* What the chat model answers when it answers with a JSON object
MetadataAnswers ==
    {[category |-> "decision", topics |-> <<"postgres">>,
      entities |-> <<"postgres">>, keyActions |-> <<"decided">>,
      domain |-> "technology"]}

ChatReplies ==
    {[kind |-> k, result |-> <<>>] : k \in {"throw", "http_error", "bad_json"}}
        \cup {[kind |-> "ok", result |-> m] : m \in MetadataAnswers}

extractContentMetadata(content, reply) ==
    IF reply.kind = "ok" THEN reply.result
    ELSE [category |-> "general", topics |-> extractBasicTopics(content),
          entities |-> <<>>, keyActions |-> extractBasicActions(content),
          domain |-> "general"]

----------------------------------------------------------------------------
(* Search: the analysis of the query *)

stopWords ==
    {"a", "an", "and", "are", "as", "at", "be", "by", "for", "from", "has",
     "he", "in", "is", "it", "its", "of", "on", "that", "the", "to", "was",
     "were", "will", "with", "would", "could", "should"}

\* queryLower.split(/[\s\-_,\.]+/).filter(...).map(...): the words of the
\* vocabulary are made of word characters only, so the pieces are the terms.
QueryTerms(queryLower) ==
    LET keep(term) == Len(term) > 2 /\ term \notin stopWords
    IN SelectSeq(queryLower, keep)

expansionMap ==
    << <<"api", <<"endpoint", "service", "interface", "rest", "graphql", "webhook">> >>,
       <<"auth", <<"authentication", "authorization", "login", "security", "token",
                   "oauth", "jwt">> >>,
       <<"db", <<"database", "data", "storage", "persistence", "sql", "nosql",
                 "mongo", "postgres">> >>,
       <<"config", <<"configuration", "settings", "setup", "environment", "env",
                     "variables">> >>,
       <<"deploy", <<"deployment", "production", "release", "publish", "build",
                     "ci/cd">> >>,
       <<"test", <<"testing", "spec", "validation", "verify", "unit", "integration",
                   "e2e">> >>,
       <<"bug", <<"error", "issue", "problem", "fix", "debug", "troubleshoot",
                  "exception">> >>,
       <<"perf", <<"performance", "optimization", "speed", "efficiency", "latency",
                   "throughput">> >>,
       <<"ui", <<"interface", "frontend", "component", "design", "user",
                 "experience", "ux">> >>,
       <<"backend", <<"server", "service", "api", "microservice", "architecture">> >>,
       <<"meeting", <<"discussion", "call", "conference", "sync", "standup",
                      "review">> >>,
       <<"project", <<"work", "task", "initiative", "feature", "development">> >>,
       <<"plan", <<"strategy", "roadmap", "approach", "timeline", "schedule">> >>,
       <<"decision", <<"choice", "selection", "determination", "resolution",
                       "conclusion">> >>,
       <<"analysis", <<"evaluation", "assessment", "review", "examination",
                       "study">> >>,
       <<"implement", <<"build", "create", "develop", "code", "construct">> >>,
       <<"learn", <<"study", "understand", "research", "explore", "investigate">> >>,
       <<"solve", <<"fix", "resolve", "address", "handle", "tackle">> >>,
       <<"improve", <<"enhance", "optimize", "refactor", "upgrade", "better">> >> >>

\* What one term adds to the set, in the order the code adds it: its own
\* synonyms, the entries that list it as a synonym, and for a term of more
\* than 6 characters the entries whose key lies in it or it lies in.
RECURSIVE ExpandOver(_, _, _)
ExpandOver(term, i, pass) ==
    IF i > Len(expansionMap) THEN <<>>
    ELSE LET key == expansionMap[i][1]
             synonyms == expansionMap[i][2]
             hit == CASE pass = "direct" -> key = term
                      [] pass = "reverse" -> term \in Range(synonyms)
                      [] pass = "partial" ->
                           /\ Len(term) > 6
                           /\ PieceIncludes(key, term) \/ PieceIncludes(term, key)
             add == IF ~hit THEN <<>>
                    ELSE IF pass = "direct" THEN synonyms
                    ELSE <<key>> \o synonyms
         IN add \o ExpandOver(term, i + 1, pass)

RECURSIVE ExpandTerms(_)
ExpandTerms(terms) ==
    IF terms = <<>> THEN <<>>
    ELSE ExpandOver(Head(terms), 1, "direct")
            \o ExpandOver(Head(terms), 1, "reverse")
            \o ExpandOver(Head(terms), 1, "partial")
            \o ExpandTerms(Tail(terms))

\* Array.from(expanded): a Set keeps the order of first insertion
expandQueryTerms(queryTerms) == Dedup(queryTerms \o ExpandTerms(queryTerms), {})

intentIndicators ==
    << <<"factual", {"what", "who", "where", "which", "is", "are", "was", "were"}>>,
       <<"procedural", {"how", "why", "when", "steps", "process", "method",
                        "approach", "way"}>>,
       <<"temporal", {"recent", "last", "latest", "current", "new", "today",
                      "yesterday", "ago"}>>,
       <<"conceptual", {"concept", "idea", "pattern", "strategy", "design",
                        "architecture", "principle"}>>,
       <<"diagnostic", {"problem", "issue", "error", "bug", "fix", "solve",
                        "debug", "troubleshoot"}>> >>

RECURSIVE IntentScan(_, _, _, _)
IntentScan(queryLower, i, maxScore, bestIntent) ==
    IF i > Len(intentIndicators) THEN bestIntent
    ELSE LET score == Cardinality({t \in intentIndicators[i][2] : Includes(queryLower, t)})
         IN IF score > maxScore
            THEN IntentScan(queryLower, i + 1, score, intentIndicators[i][1])
            ELSE IntentScan(queryLower, i + 1, maxScore, bestIntent)

analyzeQueryIntent(queryLower) == IntentScan(queryLower, 1, 0, "factual")

contextualIndicators ==
    {"related", "similar", "like", "compared", "versus", "difference", "between"}

determineQueryFocus(queryTerms, queryLower) ==
    IF Len(queryTerms) >= 3 /\ \E i \in 1..Len(queryTerms) : Len(queryTerms[i]) > 8
    THEN "specific"
    ELSE IF \E ind \in contextualIndicators : Includes(queryLower, ind)
    THEN "contextual"
    ELSE "broad"

recentIndicators ==
    {"recent", "latest", "new", "current", "today", "yesterday", "this week"}

historicalIndicators ==
    {"old", "previous", "past", "before", "earlier", "last month", "last year"}

analyzeTemporalContext(queryLower) ==
    IF \E ind \in recentIndicators : Includes(queryLower, ind) THEN "recent"
    ELSE IF \E ind \in historicalIndicators : Includes(queryLower, ind) THEN "historical"
    ELSE "any"

basicTerms == {"start", "begin", "intro", "basic", "simple", "easy"}

advancedTerms ==
    {"architecture", "optimization", "scaling", "performance", "security",
     "enterprise", "production"}

assessTechnicalLevel(queryTerms, queryLower) ==
    IF \E t \in basicTerms : Includes(queryLower, t) THEN "basic"
    ELSE IF (\E t \in advancedTerms : Includes(queryLower, t)) \/ Len(queryTerms) > 5
    THEN "advanced"
    ELSE "intermediate"

domainMap ==
    << <<"web", {"html", "css", "javascript", "react", "vue", "angular", "frontend",
                 "browser"}>>,
       <<"backend", {"server", "api", "database", "node", "python", "java",
                     "microservice"}>>,
       <<"mobile", {"ios", "android", "react-native", "flutter", "mobile", "app"}>>,
       <<"devops", {"docker", "kubernetes", "ci/cd", "deployment", "infrastructure",
                    "cloud"}>>,
       <<"data", {"database", "sql", "analytics", "etl", "pipeline", "warehouse"}>>,
       <<"security", {"auth", "encryption", "vulnerability", "penetration",
                      "security"}>>,
       <<"design", {"ui", "ux", "design", "prototype", "wireframe", "mockup"}>>,
       <<"business", {"requirements", "stakeholder", "meeting", "project",
                      "timeline"}>>,
       <<"testing", {"test", "qa", "automation", "selenium", "jest", "cypress"}>> >>

extractDomainHints(queryTerms, queryLower) ==
    LET hit(entry) == \E t \in entry[2] :
                          t \in Range(queryTerms) \/ Includes(queryLower, t)
        hits == SelectSeq(domainMap, hit)
    IN [i \in 1..Len(hits) |-> hits[i][1]]

\* The enhanced query is the text sent to the embedding backend; the answer
\* of the backend is an input of the search, so the text is not kept.
preprocessQuery(query) ==
    LET originalQuery == Trim(query)
        queryLower == LowerStr(originalQuery)
        queryTerms == QueryTerms(queryLower)
    IN [originalQuery |-> originalQuery,
        queryTerms |-> queryTerms,
        expandedTerms |-> expandQueryTerms(queryTerms),
        intent |-> analyzeQueryIntent(queryLower),
        focus |-> determineQueryFocus(queryTerms, queryLower),
        temporalContext |-> analyzeTemporalContext(queryLower),
        technicalLevel |-> assessTechnicalLevel(queryTerms, queryLower),
        domainHints |-> extractDomainHints(queryTerms, queryLower)]

----------------------------------------------------------------------------
(* Search: the five scores of a memory and their weighted sum.  The scores
   are whole numbers and the weights hundredths, so the relevance of a
   memory is kept in hundredths. *)

Sum(f, S) ==
    LET RECURSIVE Add(_)
        Add(T) == IF T = {} THEN 0
                  ELSE LET x == CHOOSE x \in T : TRUE IN f[x] + Add(T \ {x})
    IN Add(S)

\* The embeddings of the model have length 1, so the cosine is the dot
\* product; it is 0 for vectors of different or no dimension.
calculateEmbeddingSimilarity(embedding1, embedding2) ==
    IF Len(embedding1) # Len(embedding2) \/ Len(embedding1) = 0 THEN 0
    ELSE Sum([i \in 1..Len(embedding1) |-> embedding1[i] * embedding2[i]],
             1..Len(embedding1))

\* content.match(new RegExp(`\\b${term}\\b`, 'gi')): a term of the queries
\* matches the pieces equal to it, and lies in no other piece.
RegexMatches(content, term) ==
    Cardinality({i \in 1..Len(content) : ToLower(content[i]) = term})

\* The pairs <<word, queryTerm>> of different words of more than 4
\* characters at edit distance 2 or less: the vocabulary has none.
EditNear == {}

calculateEnhancedKeywordScore(content, queryTerms, expandedTerms, originalQuery) ==
    LET phrase == IF IncludesSeq(content, originalQuery) THEN 50 ELSE 0
        allTermsPresent == \A i \in 1..Len(queryTerms) : Includes(content, queryTerms[i])
        allTerms == IF allTermsPresent /\ Len(queryTerms) > 1 THEN 40 ELSE 0
        termScore(term) ==
            LET matches == RegexMatches(content, term)
                firstIndex == IndexOf(content, term)
            IN IF matches = 0 THEN 0
               ELSE 15 + Min(matches * 3, 10)
                       + (IF 10 * firstIndex < StrLength(content) THEN 5
                          ELSE IF 10 * firstIndex < 3 * StrLength(content) THEN 3
                          ELSE 0)
                       + Min(Len(term), 8)
        terms == Sum([i \in 1..Len(queryTerms) |-> termScore(queryTerms[i])],
                     1..Len(queryTerms))
        expanded == 5 * Cardinality({i \in 1..Len(expandedTerms) :
                          /\ expandedTerms[i] \notin Range(queryTerms)
                          /\ Includes(content, expandedTerms[i])})
        partialScore(queryTerm, word) ==
            IF Len(word) > 4 /\ word # queryTerm
            THEN (IF PieceIncludes(word, queryTerm) \/ PieceIncludes(queryTerm, word)
                  THEN 3 ELSE 0)
                 + (IF <<word, queryTerm>> \in EditNear THEN 2 ELSE 0)
            ELSE 0
        partial == Sum([i \in 1..Len(queryTerms) |->
                          IF Len(queryTerms[i]) > 4
                          THEN Sum([j \in 1..Len(content) |->
                                      partialScore(queryTerms[i], content[j])],
                                   1..Len(content))
                          ELSE 0],
                       1..Len(queryTerms))
    IN phrase + allTerms + terms + expanded + partial

intentMap(intent) ==
    CASE intent = "factual" -> {"is", "was", "has", "contains", "includes", "defined"}
      [] intent = "procedural" -> {"how", "step", "process", "method", "implement", "create"}
      [] intent = "temporal" -> {"when", "date", "time", "recent", "current", "last"}
      [] intent = "conceptual" -> {"concept", "idea", "approach", "strategy", "design"}
      [] intent = "diagnostic" -> {"problem", "issue", "error", "fix", "solve", "debug"}

categoryBonus(category, intent) ==
    CASE category = "decision" -> IF intent = "factual" THEN 10 ELSE 5
      [] category = "implementation" -> IF intent = "procedural" THEN 10 ELSE 5
      [] category = "problem-solving" -> IF intent = "diagnostic" THEN 10 ELSE 5
      [] category = "learning" -> IF intent = "conceptual" THEN 10 ELSE 5
      [] OTHER -> 0

calculateContextScore(memory, intent, domainHints) ==
    LET content == LowerStr(memory.content)
        intentTerms == {t \in intentMap(intent) : Includes(content, t)}
        domains == Sum([i \in 1..Len(domainHints) |->
                          (IF Includes(content, domainHints[i]) THEN 10 ELSE 0)
                          + (IF memory.metadata.domain = domainHints[i] THEN 15 ELSE 0)],
                       1..Len(domainHints))
    IN Cardinality(intentTerms) * 8 + domains
          + categoryBonus(memory.metadata.category, intent)

MinutesPerDay == 1440

\* A recency score that decays with every ten minutes of age.
calculateTemporalScore_Decay(memory, temporalContext, time) ==
    Max(0, 20 - ((time - memory.created) \div 10))

\* daysSince < n is age < n days, age in minutes
calculateTemporalScore(memory, temporalContext, time) ==
    LET age == time - memory.created
    IN CASE temporalContext = "recent" ->
              IF age < MinutesPerDay THEN 20
              ELSE IF age < 7 * MinutesPerDay THEN 15
              ELSE IF age < 30 * MinutesPerDay THEN 10
              ELSE 0
         [] temporalContext = "historical" ->
              IF age > 90 * MinutesPerDay THEN 15
              ELSE IF age > 30 * MinutesPerDay THEN 10
              ELSE 5
         [] OTHER ->
              IF age < MinutesPerDay THEN 10
              ELSE IF age < 7 * MinutesPerDay THEN 8
              ELSE IF age < 30 * MinutesPerDay THEN 5
              ELSE IF age < 90 * MinutesPerDay THEN 3
              ELSE 1

calculateMetadataScore(memory, processedQuery) ==
    LET metadata == memory.metadata
        near(a, b) == PieceIncludes(a, b) \/ PieceIncludes(b, a)
        topicMatches == {i \in 1..Len(metadata.topics) :
            \E t \in Range(processedQuery.expandedTerms) :
                near(ToLower(metadata.topics[i]), t)}
        entityMatches == {i \in 1..Len(metadata.entities) :
            \E t \in Range(processedQuery.queryTerms) :
                near(ToLower(metadata.entities[i]), t)}
        actionMatches == {i \in 1..Len(metadata.keyActions) :
            ToLower(metadata.keyActions[i]) \in Range(processedQuery.expandedTerms)}
    IN Cardinality(topicMatches) * 6 + Cardinality(entityMatches) * 8
          + Cardinality(actionMatches) * 5
          + (IF processedQuery.technicalLevel = "advanced" /\ metadata.domain = "technology"
             THEN 5 ELSE 0)

\* The weights, in hundredths, after the three adjustments
Weights(processedQuery) ==
    LET base == [semantic |-> 35, keyword |-> 30, context |-> 15,
                 temporal |-> 10, metadata |-> 10]
        focus ==
            CASE processedQuery.focus = "specific" ->
                   [base EXCEPT !.keyword = @ + 10, !.semantic = @ - 5, !.metadata = @ + 5]
              [] processedQuery.focus = "contextual" ->
                   [base EXCEPT !.semantic = @ + 10, !.context = @ + 10, !.keyword = @ - 10]
              [] OTHER -> base
        temporal ==
            IF processedQuery.temporalContext # "any"
            THEN [focus EXCEPT !.temporal = @ + 10, !.semantic = @ - 5, !.keyword = @ - 5]
            ELSE focus
    IN IF Len(processedQuery.domainHints) > 0
       THEN [temporal EXCEPT !.context = @ + 5, !.metadata = @ + 5,
                             !.keyword = @ - 5, !.semantic = @ - 5]
       ELSE temporal

combineScores(scores, processedQuery) ==
    LET weights == Weights(processedQuery)
    IN scores.semantic * weights.semantic + scores.keyword * weights.keyword
          + scores.context * weights.context + scores.temporal * weights.temporal
          + scores.metadata * weights.metadata

extractMatchedTerms(content, queryTerms, expandedTerms) ==
    LET inContent(t) == Includes(content, t)
        other(t) == Includes(content, t) /\ t \notin Range(queryTerms)
        matched == Dedup(SelectSeq(queryTerms, inContent)
                            \o SelectSeq(expandedTerms, other), {})
    IN IF matched = <<>> THEN <<"semantic match">> ELSE Take(matched, 8)

\* The result for one memory, the map of performEnhancedSearch
ScoredResult(memory, processedQuery, queryEmbedding, time) ==
    LET contentLower == LowerStr(memory.content)
        scores ==
            [semantic |-> IF queryEmbedding # None /\ memory.embedding # None
                          THEN calculateEmbeddingSimilarity(queryEmbedding[1],
                                                            memory.embedding[1]) * 100
                          ELSE 0,
             keyword |-> calculateEnhancedKeywordScore(contentLower,
                             processedQuery.queryTerms, processedQuery.expandedTerms,
                             LowerStr(processedQuery.originalQuery)),
             context |-> calculateContextScore(memory, processedQuery.intent,
                                               processedQuery.domainHints),
             temporal |-> calculateTemporalScore(memory, processedQuery.temporalContext, time),
             metadata |-> calculateMetadataScore(memory, processedQuery)]
    IN [memory |-> memory,
        relevanceScore |-> combineScores(scores, processedQuery),
        matchedTerms |-> extractMatchedTerms(contentLower, processedQuery.queryTerms,
                                             processedQuery.expandedTerms),
        usedEmbeddings |-> queryEmbedding # None]

performEnhancedSearch(memories, processedQuery, queryEmbedding, time) ==
    [i \in 1..Len(memories) |->
        ScoredResult(memories[i], processedQuery, queryEmbedding, time)]

----------------------------------------------------------------------------
(* Search: threshold, fallback, deduplication and normalisation.  A returned
   relevanceScore is the fraction <<numerator, denominator>>. *)

BaseThreshold == 15
BroadThreshold == 10
SpecificThreshold == 25
FallbackCount == 2

\* The threshold as a fraction of hundredths: <<15, 1>> is 15, and the
\* adaptive value avgScore * 0.3 is <<3 * sum, 10 * n>>.
\* A threshold that takes 30% of the average whenever the top score is above
\* three times the average
determineRelevanceThreshold_NoMax(results, processedQuery) ==
    IF Len(results) = 0 THEN <<0, 1>>
    ELSE LET n == Len(results)
             sum == Sum([i \in 1..n |-> results[i].relevanceScore], 1..n)
             maxScore == CHOOSE m \in {results[i].relevanceScore : i \in 1..n} :
                             \A i \in 1..n : results[i].relevanceScore <= m
             baseThreshold ==
                 100 * (CASE processedQuery.focus = "broad" -> BroadThreshold
                          [] processedQuery.focus = "specific" -> SpecificThreshold
                          [] OTHER -> BaseThreshold)
         IN IF maxScore * n > sum * 3
            THEN <<3 * sum, 10 * n>>
            ELSE <<baseThreshold, 1>>

determineRelevanceThreshold(results, processedQuery) ==
    IF Len(results) = 0 THEN <<0, 1>>
    ELSE LET n == Len(results)
             sum == Sum([i \in 1..n |-> results[i].relevanceScore], 1..n)
             maxScore == CHOOSE m \in {results[i].relevanceScore : i \in 1..n} :
                             \A i \in 1..n : results[i].relevanceScore <= m
             baseThreshold ==
                 100 * (CASE processedQuery.focus = "broad" -> BroadThreshold
                          [] processedQuery.focus = "specific" -> SpecificThreshold
                          [] OTHER -> BaseThreshold)
         IN IF maxScore * n > sum * 3 /\ 3 * sum > baseThreshold * 10 * n
            THEN <<3 * sum, 10 * n>>
            ELSE <<baseThreshold, 1>>

\* result.relevanceScore >= threshold
MeetsThreshold(result, threshold) ==
    result.relevanceScore * threshold[2] >= threshold[1]

SortByRelevanceDesc_Unsorted(results) == results

SortByRelevanceDesc(results) ==
    LET pairs == [i \in 1..Len(results) |-> <<results[i].relevanceScore, results[i]>>]
        sorted == SortPairsDesc(pairs, <<>>)
    IN [i \in 1..Len(sorted) |-> sorted[i][2]]

\* calculateAdvancedContentSimilarity(content1, content2) > percent / 100,
\* with the similarity 0.6 * a / b + 0.4 * c / d; 0 / 0 is NaN, which is
\* above nothing.
SimilarityAbove(content1, content2, processedQuery, percent) ==
    LET words1 == WordSet(content1)
        words2 == WordSet(content2)
        relevant(word) == \E t \in Range(processedQuery.expandedTerms) :
                              PieceIncludes(word, t) \/ PieceIncludes(t, word)
        relevantWords1 == {w \in words1 : relevant(w)}
        relevantWords2 == {w \in words2 : relevant(w)}
        a == Cardinality(words1 \cap words2)
        b == Max(Cardinality(words1), Cardinality(words2))
        both == relevantWords1 # {} /\ relevantWords2 # {}
        c == IF both THEN Cardinality(relevantWords1 \cap relevantWords2) ELSE 0
        d == IF both THEN Max(Cardinality(relevantWords1), Cardinality(relevantWords2))
             ELSE 1
    IN b > 0 /\ (6 * a * d + 4 * c * b) * 100 > percent * 10 * b * d

RECURSIVE DedupScan(_, _, _)
DedupScan(results, deduplicated, processedQuery) ==
    IF results = <<>> THEN deduplicated
    ELSE LET current == Head(results)
             skip == \E k \in 1..Len(deduplicated) :
                 LET existing == deduplicated[k]
                 IN \/ /\ SimilarityAbove(current.memory.content, existing.memory.content,
                                          processedQuery, 85)
                       /\ current.memory.session_id = existing.memory.session_id
                    \/ /\ SimilarityAbove(current.memory.content, existing.memory.content,
                                          processedQuery, 75)
                       /\ current.relevanceScore * 10 < existing.relevanceScore * 9
         IN DedupScan(Tail(results),
                      IF skip THEN deduplicated ELSE Append(deduplicated, current),
                      processedQuery)

deduplicateResults(results, processedQuery) ==
    IF Len(results) <= 1 THEN results
    ELSE DedupScan(Tail(results), <<results[1]>>, processedQuery)

ReturnedResult(result, score) ==
    [memory |-> result.memory, relevanceScore |-> score,
     matchedTerms |-> result.matchedTerms, usedEmbeddings |-> result.usedEmbeddings]

\* A fallback that gave its results the score 1.0.
FallbackScore_Normalised(result) == <<1, 1>>

\* A fallback that divided by 100 and set no floor.
FallbackScore_NoFloor(result) == <<result.relevanceScore, 10000>>

\* Math.max(result.relevanceScore / 100, 0.1), the relevance in hundredths
FallbackScore(result) == <<Max(result.relevanceScore, 1000), 10000>>

\* A ranking that returns nothing when no result reaches the threshold.
rankAndFilterResults_NoFallback(searchResults, processedQuery, limit) ==
    LET threshold == determineRelevanceThreshold(searchResults, processedQuery)
        meets(r) == MeetsThreshold(r, threshold)
        deduplicated == deduplicateResults(
                            SortByRelevanceDesc(SelectSeq(searchResults, meets)),
                            processedQuery)
        maxScore == IF deduplicated # <<>> /\ deduplicated[1].relevanceScore # 0
                    THEN deduplicated[1].relevanceScore ELSE 1
        kept == Take(deduplicated, limit)
    IN [path |-> "ranked",
        results |-> [i \in 1..Len(kept) |->
                        ReturnedResult(kept[i], <<kept[i].relevanceScore, maxScore>>)]]

rankAndFilterResults(searchResults, processedQuery, limit) ==
    LET threshold == determineRelevanceThreshold(searchResults, processedQuery)
        meets(r) == MeetsThreshold(r, threshold)
        filtered == SelectSeq(searchResults, meets)
    IN IF Len(filtered) = 0 /\ Len(searchResults) > 0
       THEN LET best == Take(SortByRelevanceDesc(searchResults), Min(FallbackCount, limit))
            IN [path |-> "fallback",
                results |-> [i \in 1..Len(best) |->
                                ReturnedResult(best[i], FallbackScore(best[i]))]]
       ELSE LET deduplicated == deduplicateResults(SortByRelevanceDesc(filtered),
                                                   processedQuery)
                maxScore == IF deduplicated # <<>> /\ deduplicated[1].relevanceScore # 0
                            THEN deduplicated[1].relevanceScore ELSE 1
                kept == Take(deduplicated, limit)
            IN [path |-> "ranked",
                results |-> [i \in 1..Len(kept) |->
                                ReturnedResult(kept[i], <<kept[i].relevanceScore, maxScore>>)]]

\* The answer to an empty query that gave every stored memory.
RecentResults_All(memories, limit) ==
    [i \in 1..Len(memories) |->
        [memory |-> memories[i], relevanceScore |-> <<1, 1>>,
         matchedTerms |-> <<>>, usedEmbeddings |-> FALSE]]

\* memories.slice(0, limit).map(...): the answer to an empty query
RecentResults(memories, limit) ==
    [i \in 1..Min(limit, Len(memories)) |->
        [memory |-> memories[i], relevanceScore |-> <<1, 1>>,
         matchedTerms |-> <<>>, usedEmbeddings |-> FALSE]]

\* searchSessionMemories(projectPath, query, limit): the embedding of the
\* query comes back after d minutes, and the memories are scored then.
\* asked tells whether the embedding backend was called, and embedding is
\* what generateAIEmbedding gave.
searchSessionMemories(query, limit, embeddingReply, d) ==
    LET memories == Only({loadSessionMemories})
    IN IF Len(memories) = 0
       THEN [path |-> "empty", time |-> now, results |-> <<>>,
             asked |-> FALSE, embedding |-> None]
       ELSE IF query = <<"">> \/ Trim(query) = <<"">>
       THEN [path |-> "blank", time |-> now,
             results |-> RecentResults(memories, limit),
             asked |-> FALSE, embedding |-> None]
       ELSE Only({[path |-> ranked.path, time |-> now + d, results |-> ranked.results,
                   asked |-> TRUE, embedding |-> queryEmbedding] :
                <<queryEmbedding, ranked>> \in
                    {<<qe, rankAndFilterResults(
                               performEnhancedSearch(memories, pq, qe, now + d), pq, limit)>> :
                        <<qe, pq>> \in {<<generateAIEmbedding(embeddingReply).value,
                                          preprocessQuery(query)>>}}})

----------------------------------------------------------------------------
(* saveSessionMemory, one action for each stretch between two suspensions *)

Callers == {1, 2}

NoLocals ==
    [content |-> <<"">>, pre |-> <<"absent", <<>>>>, uuid |-> 0,
     existingMemories |-> <<>>,
     sessionId |-> 0, sessionTime |-> 0, lastMemory |-> None,
     target |-> None, text |-> <<"">>, embeddingReply |-> "none",
     memory |-> None, updatedMemories |-> <<>>]

NoReturn == [kind |-> "none", memory |-> None]

NoSearch == [query |-> <<"">>, limit |-> 0, time |-> 0, path |-> "none",
             results |-> <<>>, asked |-> FALSE, embedding |-> None,
             previous |-> None]

NoProbe == [fn |-> "none", input |-> None, output |-> None]

\* The empty store with no call made
EmptyStore ==
    /\ file = <<>>
    /\ fileState = "absent"
    /\ now = 0
    /\ nextUuid = 1
    /\ calls = 0
    /\ pc = [p \in Callers |-> "idle"]
    /\ loc = [p \in Callers |-> NoLocals]
    /\ ret = [p \in Callers |-> NoReturn]
    /\ found = NoSearch
    /\ rare = 0

Init == EmptyStore /\ probe = NoProbe

\* A function is called on its own with one of the given inputs
Called(fn, inputs) ==
    /\ EmptyStore
    /\ probe \in {[fn |-> fn, input |-> Some(x), output |-> None] : x \in inputs}

\* The function called returns
Return(fn, result) ==
    /\ probe.fn = fn
    /\ probe.output = None
    /\ probe' = [probe EXCEPT !.output = Some(result)]
    /\ UNCHANGED <<file, fileState, now, nextUuid, calls, pc, loc, ret, found, rare>>

ContentIsEmpty_NoTrim(content) == content = <<"">>

\* !content || content.trim().length === 0
ContentIsEmpty(content) == content = <<"">> \/ TrimIsEmpty(content)

\* The call, d minutes after the last step, and its validation: an empty
\* content throws before anything is read or written.
saveStart(p, content, d) ==
    /\ pc[p] = "idle"
    /\ now' = now + d
    /\ calls' = calls + 1
    /\ loc' = [loc EXCEPT ![p] = [NoLocals EXCEPT !.content = content,
                                                  !.pre = <<fileState, file>>,
                                                  !.uuid = nextUuid]]
    /\ IF ContentIsEmpty(content)
       THEN /\ ret' = [ret EXCEPT ![p] = [kind |-> "error", memory |-> None]]
            /\ pc' = pc
       ELSE /\ ret' = [ret EXCEPT ![p] = [kind |-> "pending", memory |-> None]]
            /\ pc' = [pc EXCEPT ![p] = "load"]
    /\ UNCHANGED <<file, fileState, nextUuid, found, probe>>

saveLoad_Nothing(p) ==
    /\ pc[p] = "load"
    /\ pc' = [pc EXCEPT ![p] = "session"]
    /\ UNCHANGED <<file, fileState, now, nextUuid, calls, loc, ret, found, probe, rare>>

\* const existingMemories = await loadSessionMemories(projectPath)
saveLoad(p) ==
    /\ pc[p] = "load"
    /\ loc' = [loc EXCEPT ![p].existingMemories = loadSessionMemories]
    /\ pc' = [pc EXCEPT ![p] = "session"]
    /\ UNCHANGED <<file, fileState, now, nextUuid, calls, ret, found, probe, rare>>

\* generateSessionId reads the file again; the analysis and the consolidation
\* check follow without a suspension.
saveSession(p) ==
    /\ pc[p] = "session"
    /\ LET memories == loadSessionMemories
           sid == generateSessionId(memories, now, nextUuid)
           content == loc[p].content
           target == shouldConsolidateMemory(content, loc[p].existingMemories, now)
           analysis == analyzeMemoryContent(content)
       IN /\ nextUuid' = nextUuid + sid[2]
          /\ loc' = [loc EXCEPT
                 ![p].sessionId = sid[1],
                 ![p].sessionTime = now,
                 ![p].lastMemory = IF memories = <<>> THEN None ELSE Some(memories[1]),
                 ![p].target = target,
                 ![p].text = IF target # None
                             THEN consolidatedContent(target[1].content, content)
                             ELSE processMemoryContentSimple(content, analysis)]
          /\ pc' = [pc EXCEPT ![p] = IF target # None THEN "embedMerged" ELSE "embedNew"]
    /\ UNCHANGED <<file, fileState, now, calls, ret, found, probe, rare>>

\* An exception that nothing catches rejects the call: nothing more is done.
saveThrows(p, embeddingReply) ==
    /\ loc' = [loc EXCEPT ![p].embeddingReply = IF embeddingReply.kind = "ok" THEN "ok" ELSE "failed"]
    /\ ret' = [ret EXCEPT ![p] = [kind |-> "error", memory |-> None]]
    /\ pc' = [pc EXCEPT ![p] = "idle"]
    /\ UNCHANGED nextUuid

newMemory(id, processedContent, time, sessionId, embedding, contentMetadata) ==
    [id |-> id, content |-> processedContent, created |-> time,
     session_id |-> sessionId, embedding |-> embedding,
     embedding_model |-> IF embedding # None THEN Some(AI_EMBEDDING_MODEL) ELSE None,
     metadata |-> contentMetadata]

\* The create path: metadata and embedding are requested (the answers come d
\* minutes later), the memory is built and the working set is cut to its
\* capacity.
saveCreate(p, chatReply, embeddingReply, d) ==
    /\ pc[p] = "embedNew"
    /\ now' = now + d
    /\ LET processedContent == loc[p].text
           contentMetadata == extractContentMetadata(processedContent, chatReply)
           embedding == generateAIEmbedding(embeddingReply)
           memory == newMemory(nextUuid, processedContent, now', loc[p].sessionId,
                               embedding.value, contentMetadata)
       IN IF embedding.threw THEN saveThrows(p, embeddingReply)
          ELSE /\ loc' = [loc EXCEPT
                      ![p].embeddingReply = IF embeddingReply.kind = "ok" THEN "ok" ELSE "failed",
                      ![p].memory = Some(memory),
                      ![p].updatedMemories =
                          manageMemoryCapacitySimple(<<memory>> \o loc[p].existingMemories)]
               /\ nextUuid' = nextUuid + 1
               /\ pc' = [pc EXCEPT ![p] = "write"]
               /\ ret' = ret
    /\ UNCHANGED <<file, fileState, calls, found, probe, rare>>

\* await saveSessionMemories(projectPath, updatedMemories); return newMemory
saveWrite(p) ==
    /\ pc[p] = "write"
    /\ saveSessionMemories(loc[p].updatedMemories)
    /\ ret' = [ret EXCEPT ![p] = [kind |-> "created", memory |-> loc[p].memory]]
    /\ pc' = [pc EXCEPT ![p] = "idle"]
    /\ UNCHANGED <<now, nextUuid, calls, loc, found, probe, rare>>

\* consolidateMemories: the embedding of the combined text (d minutes), then
\* the updated memory
\* A consolidation that names the embedding model whether or not it got an
\* embedding.
\* A consolidation that leaves the timestamp of the target as it was
updatedMemory_KeepCreated(targetMemory, content, time, newEmbedding) ==
    [targetMemory EXCEPT
        !.content = content,
        !.embedding = IF newEmbedding # None THEN newEmbedding ELSE @,
        !.embedding_model = IF newEmbedding # None THEN Some(AI_EMBEDDING_MODEL) ELSE @]

updatedMemory_NoFallback(targetMemory, content, time, newEmbedding) ==
    [targetMemory EXCEPT
        !.content = content,
        !.created = time,
        !.embedding = newEmbedding,
        !.embedding_model = IF newEmbedding # None THEN Some(AI_EMBEDDING_MODEL) ELSE @]

updatedMemory_AlwaysModel(targetMemory, content, time, newEmbedding) ==
    [targetMemory EXCEPT
        !.content = content,
        !.created = time,
        !.embedding = IF newEmbedding # None THEN newEmbedding ELSE @,
        !.embedding_model = Some(AI_EMBEDDING_MODEL)]

updatedMemory(targetMemory, content, time, newEmbedding) ==
    [targetMemory EXCEPT
        !.content = content,
        !.created = time,
        !.embedding = IF newEmbedding # None THEN newEmbedding ELSE @,
        !.embedding_model = IF newEmbedding # None THEN Some(AI_EMBEDDING_MODEL) ELSE @]

consolidateEmbed(p, embeddingReply, d) ==
    /\ pc[p] = "embedMerged"
    /\ now' = now + d
    /\ LET newEmbedding == generateAIEmbedding(embeddingReply)
       IN IF newEmbedding.threw THEN saveThrows(p, embeddingReply)
          ELSE /\ loc' = [loc EXCEPT
                      ![p].embeddingReply = IF embeddingReply.kind = "ok" THEN "ok" ELSE "failed",
                      ![p].memory = Some(updatedMemory(loc[p].target[1], loc[p].text,
                                                       now', newEmbedding.value))]
               /\ pc' = [pc EXCEPT ![p] = "loadAll"]
               /\ UNCHANGED <<nextUuid, ret>>
    /\ UNCHANGED <<file, fileState, calls, found, probe, rare>>

ReplaceTarget_Prepend(allMemories, targetId, updated) == <<updated>> \o allMemories

\* A consolidation that adds the updated memory at the end and leaves the
\* target where it is
ReplaceTarget_Append(allMemories, targetId, updated) == allMemories \o <<updated>>

\* allMemories.map(memory => memory.id === targetMemory.id ? updatedMemory : memory)
ReplaceTarget(allMemories, targetId, updated) ==
    [i \in 1..Len(allMemories) |->
        IF allMemories[i].id = targetId THEN updated ELSE allMemories[i]]

consolidateLoad(p) ==
    /\ pc[p] = "loadAll"
    /\ loc' = [loc EXCEPT ![p].updatedMemories =
                 ReplaceTarget(loadSessionMemories, loc[p].target[1].id, loc[p].memory[1])]
    /\ pc' = [pc EXCEPT ![p] = "writeAll"]
    /\ UNCHANGED <<file, fileState, now, nextUuid, calls, ret, found, probe, rare>>

consolidateWrite(p) ==
    /\ pc[p] = "writeAll"
    /\ saveSessionMemories(loc[p].updatedMemories)
    /\ ret' = [ret EXCEPT ![p] = [kind |-> "consolidated", memory |-> loc[p].memory]]
    /\ pc' = [pc EXCEPT ![p] = "idle"]
    /\ UNCHANGED <<now, nextUuid, calls, loc, found, probe, rare>>

Search(query, limit, embeddingReply, d) ==
    /\ \A p \in Callers : pc[p] = "idle"
    /\ \E answer \in {searchSessionMemories(query, limit, embeddingReply, d)} :
          /\ found' = [query |-> query, limit |-> limit, time |-> answer.time,
                       path |-> answer.path, results |-> answer.results,
                       asked |-> answer.asked, embedding |-> answer.embedding,
                       previous |-> IF found.path = "none" THEN None ELSE Some(found)]
          /\ now' = answer.time
    /\ UNCHANGED <<file, fileState, nextUuid, calls, pc, loc, ret, rare, probe>>

----------------------------------------------------------------------------
(* The contents a caller saves *)

Topic(i) == "item" \o ToString(i) \o "x"

Topics(a, b) == [i \in 1..(b - a + 1) |-> Topic(a + i - 1)]

ContentEmpty == <<"">>
ContentBlank == <<"", "">>
ContentA == Topics(1, 10)
ContentB == Topics(1, 7) \o Topics(11, 13)
ContentC == Topics(1, 8) \o Topics(11, 12)
ContentD == <<"Decided", "postgres">>
ContentE == <<"postgres", "backup", "finished">>
ContentF == <<"lunch", "menu">>

Contents ==
    {ContentEmpty, ContentBlank, ContentA, ContentB, ContentC, ContentD}

\* Minutes between two calls, and minutes a backend takes to answer
Gaps == {5, 30}
Delays == {0, 25}

SaveChatReplies == {r \in ChatReplies : r.kind \in {"throw", "ok"}}

SaveEmbeddingReplies ==
    {r \in EmbeddingReplies : r.kind = "ok" => r.embedding = <<1, 0>>}

----------------------------------------------------------------------------
(* One caller at a time: each call runs to its end before the next starts *)

SeqStart ==
    \E c \in Contents, d \in Gaps :
        /\ calls < MaxCalls
        /\ calls = 0 => d = 5
        /\ saveStart(1, c, d)
        /\ UNCHANGED rare

SeqCreate ==
    \E c \in SaveChatReplies, e \in SaveEmbeddingReplies, d \in Delays :
        saveCreate(1, c, e, d)

SeqMerge ==
    \E e \in SaveEmbeddingReplies, d \in Delays : consolidateEmbed(1, e, d)

Next ==
    \/ SeqStart
    \/ saveLoad(1)
    \/ saveSession(1)
    \/ SeqCreate
    \/ saveWrite(1)
    \/ SeqMerge
    \/ consolidateLoad(1)
    \/ consolidateWrite(1)

Spec == Init /\ [][Next]_vars

----------------------------------------------------------------------------
(* A long run of saves by one caller, from the empty store: call n saves a
   text of its own, one minute after the call before.  At most MaxRare steps
   of a run are irregular, after the second call or late in the run: a call
   that repeats the text of one of the two calls before it, or a direct
   saveSessionMemories call with a collection that some other code put
   together. *)

IrregularAfter == {2, WorkingCap + 1}

Unique(n) == <<"memo" \o ToString(n) \o "x">>

\* A collection of n memories with new identifiers, newest first or oldest
\* first, the newest created at the present time
Collection(n, newestFirst) ==
    [i \in 1..n |->
        newMemory(nextUuid + i, Unique(MaxChainCalls + i),
                  IF newestFirst THEN now - (i - 1) ELSE now - (n - i),
                  nextUuid, None,
                  [category |-> "general", topics |-> <<>>, entities |-> <<>>,
                   keyActions |-> <<>>, domain |-> "general"])]

CollectionSizes == {PersistCap, PersistCap + 1}

ChainStart ==
    /\ calls < MaxChainCalls
    /\ saveStart(1, Unique(calls + 1), 1)
    /\ UNCHANGED rare

ChainRepeat ==
    \E back \in {0, 1} :
        /\ calls < MaxChainCalls
        /\ rare < MaxRare
        /\ calls \in IrregularAfter
        /\ saveStart(1, Unique(calls - back), 1)
        /\ rare' = rare + 1

ChainCreate ==
    saveCreate(1, [kind |-> "http_error", result |-> <<>>],
               [kind |-> "ok", embedding |-> <<1, 0>>], 0)

ChainMerge == consolidateEmbed(1, [kind |-> "ok", embedding |-> <<0, 1>>], 0)

\* saveSessionMemories(projectPath, memories), called on its own
ChainStore ==
    \E n \in CollectionSizes, newestFirst \in BOOLEAN :
        /\ pc[1] = "idle"
        /\ rare < MaxRare
        /\ calls \in IrregularAfter
        /\ saveSessionMemories(Collection(n, newestFirst))
        /\ nextUuid' = nextUuid + n + 1
        /\ rare' = rare + 1
        /\ UNCHANGED <<now, calls, pc, loc, ret, found, probe>>

\* Something outside the engine leaves session_memories.json unparsable:
\* the file holds no memory any more
ChainCorrupt ==
    /\ pc[1] = "idle"
    /\ rare < MaxRare
    /\ calls \in IrregularAfter
    /\ fileState = "valid"
    /\ fileState' = "invalid"
    /\ file' = <<>>
    /\ rare' = rare + 1
    /\ UNCHANGED <<now, nextUuid, calls, pc, loc, ret, found, probe>>

NextChain ==
    \/ ChainStart
    \/ ChainRepeat
    \/ ChainStore
    \/ ChainCorrupt
    \/ saveLoad(1)
    \/ saveSession(1)
    \/ ChainCreate
    \/ saveWrite(1)
    \/ ChainMerge
    \/ consolidateLoad(1)
    \/ consolidateWrite(1)

SpecChain == Init /\ [][NextChain]_vars

\* The long run with nothing but saveSessionMemory calls
NextSaves ==
    \/ ChainStart
    \/ ChainRepeat
    \/ saveLoad(1)
    \/ saveSession(1)
    \/ ChainCreate
    \/ saveWrite(1)
    \/ ChainMerge
    \/ consolidateLoad(1)
    \/ consolidateWrite(1)

SpecSaves == Init /\ [][NextSaves]_vars

----------------------------------------------------------------------------
(* Two callers, one call each, with nothing to keep the steps of one call
   from falling between the steps of the other: every await of
   saveSessionMemory is a point where the other call may run. *)

RaceContents == {ContentA, ContentD}

RaceStart(p) ==
    \E c \in RaceContents :
        /\ ret[p].kind = "none"
        /\ saveStart(p, c, 5)
        /\ UNCHANGED rare

RaceCreate(p) ==
    saveCreate(p, [kind |-> "http_error", result |-> <<>>],
               [kind |-> "ok", embedding |-> <<1, 0>>], 0)

RaceMerge(p) == consolidateEmbed(p, [kind |-> "ok", embedding |-> <<1, 0>>], 0)

NextRace ==
    \E p \in Callers :
        \/ RaceStart(p)
        \/ saveLoad(p)
        \/ saveSession(p)
        \/ RaceCreate(p)
        \/ saveWrite(p)
        \/ RaceMerge(p)
        \/ consolidateLoad(p)
        \/ consolidateWrite(p)

SpecRace == Init /\ [][NextRace]_vars

----------------------------------------------------------------------------
(* One search over the store that a few saves leave.  The saves come first:
   a search changes nothing a save reads. *)

SearchContents == {ContentD, ContentE, ContentF}

QueryEmpty == <<"">>
QueryBlank == <<"", "">>
QueryPostgres == <<"postgres">>
QueryKubernetes == <<"kubernetes">>
QueryLike == <<"like", "postgres">>

Queries == {QueryEmpty, QueryBlank, QueryPostgres, QueryKubernetes, QueryLike}

\* load_memory takes a limit from 1 to 10
Limits == {1, 2, 5}

QueryEmbeddingReplies ==
    {[kind |-> "http_error", embedding |-> <<>>],
     [kind |-> "ok", embedding |-> <<1, 0>>],
     [kind |-> "ok", embedding |-> <<-1, 0>>]}

SearchSaveStart ==
    \E c \in SearchContents :
        /\ calls < MaxSearchSaves
        /\ found.path = "none"
        /\ saveStart(1, c, 5)
        /\ UNCHANGED rare

\* The backends answer a save with an embedding and no metadata, or, for
\* the text the metadata of the model describe, with metadata and no
\* embedding.
SearchSaveCreate ==
    \/ saveCreate(1, [kind |-> "http_error", result |-> <<>>],
                  [kind |-> "ok", embedding |-> <<1, 0>>], 0)
    \/ \E m \in MetadataAnswers :
          /\ loc[1].content = ContentD
          /\ saveCreate(1, [kind |-> "ok", result |-> m],
                        [kind |-> "http_error", embedding |-> <<>>], 0)

SearchSaveMerge == consolidateEmbed(1, [kind |-> "ok", embedding |-> <<1, 0>>], 0)

SearchRun ==
    \E q \in Queries, limit \in Limits, e \in QueryEmbeddingReplies :
        /\ found.path = "none"
        /\ Search(q, limit, e, 0)

NextSearch ==
    \/ SearchSaveStart
    \/ saveLoad(1)
    \/ saveSession(1)
    \/ SearchSaveCreate
    \/ saveWrite(1)
    \/ SearchSaveMerge
    \/ consolidateLoad(1)
    \/ consolidateWrite(1)
    \/ SearchRun

SpecSearch == Init /\ [][NextSearch]_vars

----------------------------------------------------------------------------
(* The same search made twice over the store that a few saves leave: nothing
   is saved between the two calls. *)

RepeatQueries == {QueryPostgres, QueryLike}

RepeatLimits == {2}

\* Minutes from the first call until the second one scores the memories: ten
\* minutes, or a day
RepeatDelays == {10, MinutesPerDay}

\* The embedding backend fails, or gives the embedding of the stored texts
RepeatEmbeddingReplies ==
    {r \in QueryEmbeddingReplies : r.kind = "ok" => r.embedding = <<1, 0>>}

RepeatFirst ==
    \E q \in RepeatQueries, limit \in RepeatLimits, e \in RepeatEmbeddingReplies :
        /\ found.path = "none"
        /\ Search(q, limit, e, 0)

RepeatAgain ==
    \E e \in RepeatEmbeddingReplies, d \in RepeatDelays :
        /\ found.path # "none"
        /\ found.previous = None
        /\ Search(found.query, found.limit, e, d)

NextRepeat ==
    \/ SearchSaveStart
    \/ saveLoad(1)
    \/ saveSession(1)
    \/ SearchSaveCreate
    \/ saveWrite(1)
    \/ SearchSaveMerge
    \/ consolidateLoad(1)
    \/ consolidateWrite(1)
    \/ RepeatFirst
    \/ RepeatAgain

SpecRepeat == Init /\ [][NextRepeat]_vars

----------------------------------------------------------------------------
(* A few saves of texts that are alike, one caller, the backends answering
   at once: the second and third call find one or two memories to add to,
   inside the window of the consolidation check or outside *)

MaxWindowCalls == 3

WindowContents == {ContentA, ContentB, ContentC}

WindowGaps == {5, 25, 30}

WindowStart ==
    \E c \in WindowContents, d \in WindowGaps :
        /\ calls < MaxWindowCalls
        /\ saveStart(1, c, d)
        /\ UNCHANGED rare

WindowCreate ==
    saveCreate(1, [kind |-> "http_error", result |-> <<>>],
               [kind |-> "ok", embedding |-> <<1, 0>>], 0)

\* The embedding of a combined text, which is not that of a text saved
MergedEmbedding == <<0, 1>>

\* The embedding request for the combined text fails or succeeds
WindowMerge ==
    \E e \in {[kind |-> "http_error", embedding |-> <<>>],
               [kind |-> "ok", embedding |-> MergedEmbedding]} :
        consolidateEmbed(1, e, 0)

NextWindow ==
    \/ WindowStart
    \/ saveLoad(1)
    \/ saveSession(1)
    \/ WindowCreate
    \/ saveWrite(1)
    \/ WindowMerge
    \/ consolidateLoad(1)
    \/ consolidateWrite(1)

SpecWindow == Init /\ [][NextWindow]_vars

----------------------------------------------------------------------------
(* Functions called on their own *)

MaxCategoryWords == 3

\* No indicator, one indicator of discovery, two of decision, one of
\* implementation and one of reflection
CategoryWords == {"lunch", "found", "chose", "picked", "built", "thinking"}

CategoryContents ==
    UNION {[1..n -> CategoryWords] : n \in 1..MaxCategoryWords}

InitCategory == Called("determineCategory", CategoryContents)

ReturnCategory ==
    Return("determineCategory", determineCategory(LowerStr(probe.input[1])))

SpecCategory == InitCategory /\ [][ReturnCategory]_vars

MaxScores == 3

\* Raw scores in hundredths: below zero, zero, under every base value, between
\* the base values, above them, and far above
ThresholdScores == {-1000, 0, 500, 2000, 5000, 40000}

Focuses == {"specific", "broad", "contextual"}

\* The non-empty lists of results rankAndFilterResults can hand over
ThresholdInputs ==
    {[results |-> [i \in 1..n |-> [relevanceScore |-> scores[i]]],
      processedQuery |-> [focus |-> f]] :
        <<n, scores, f>> \in
            UNION {{n} \X [1..n -> ThresholdScores] \X Focuses : n \in 1..MaxScores}}

InitThreshold == Called("determineRelevanceThreshold", ThresholdInputs)

ReturnThreshold ==
    Return("determineRelevanceThreshold",
           determineRelevanceThreshold(probe.input[1].results,
                                       probe.input[1].processedQuery))

SpecThreshold == InitThreshold /\ [][ReturnThreshold]_vars

----------------------------------------------------------------------------
(* clusterMemoriesEnhanced.  A memory of the clustering has an id, tags, a
   category and a created time; its content is kept as two things the
   function draws from it: tfidf, the TF-IDF vector of its document among
   the documents of the list, and matched, what the four passes of
   calculateEnhancedClusterRelevance add to totalScore for it under a query
   that is not blank.  Of a cluster the memories and the relevanceScore are
   kept. *)

\* vectorA.reduce(...): the dot product, for vectors of one length
Dot(vectorA, vectorB) ==
    Sum([i \in 1..Len(vectorA) |-> vectorA[i] * vectorB[i]], 1..Len(vectorA))

\* Math.sqrt, for the squares the vectors of the model have
Sqrt(n) == CHOOSE r \in 0..n : r * r = n

\* The cosine in thousandths
cosineSimilarity(vectorA, vectorB) ==
    IF Len(vectorA) # Len(vectorB) \/ Len(vectorA) = 0 THEN 0
    ELSE IF Dot(vectorA, vectorA) = 0 \/ Dot(vectorB, vectorB) = 0 THEN 0
    ELSE (1000 * Dot(vectorA, vectorB))
             \div (Sqrt(Dot(vectorA, vectorA)) * Sqrt(Dot(vectorB, vectorB)))

Distance(a, b) == IF a >= b THEN a - b ELSE b - a

haveSimilarTags(mem1, mem2) == Range(mem1.tags) \cap Range(mem2.tags) # {}

areTemporallyRelated(mem1, mem2) ==
    Distance(mem1.created, mem2.created) < 3 * MinutesPerDay

\* similarityMatrix[i][j] as the fraction <<numerator, denominator>>: the
\* cosine, 0.2 * shared / most for shared tags, 0.15 for one category and
\* 0.1 * (1 - days / 7) inside 7 days, over the denominator 504000 * most,
\* and 1 at most.
similarityMatrix(memories, i, j) ==
    IF i = j THEN <<1, 1>>
    ELSE LET sharedTags == Cardinality({k \in 1..Len(memories[i].tags) :
                               memories[i].tags[k] \in Range(memories[j].tags)})
             most == Max(Max(Len(memories[i].tags), Len(memories[j].tags)), 1)
             timeDiff == Distance(memories[i].created, memories[j].created)
             similarity ==
                 504 * most * cosineSimilarity(memories[i].tfidf, memories[j].tfidf)
                 + (IF sharedTags > 0 THEN 100800 * sharedTags ELSE 0)
                 + (IF memories[i].category = memories[j].category
                    THEN 75600 * most ELSE 0)
                 + (IF timeDiff < 7 * MinutesPerDay
                    THEN 5 * most * (7 * MinutesPerDay - timeDiff) ELSE 0)
         IN <<Min(similarity, 504000 * most), 504000 * most>>

\* 0.2
similarityThreshold == <<1, 5>>

\* The condition under which the seed i takes the memory j into its cluster
Absorbs(memories, i, j) ==
    \/ similarityMatrix(memories, i, j)[1] * similarityThreshold[2]
           > similarityThreshold[1] * similarityMatrix(memories, i, j)[2]
    \/ haveSimilarTags(memories[i], memories[j])
    \/ memories[i].category = memories[j].category
    \/ areTemporallyRelated(memories[i], memories[j])

\* query.toLowerCase().split(/\s+/).filter(term => term.length > 1), for
\* queries whose terms all have more than one character
ClusterQueryTerms(query) == SelectSeq(query, LAMBDA w : w # "")

\* totalScore / Math.max(maxPossibleScore, 1), 1 at most, as a fraction.
\* Each memory adds 15 + 32 + 8 for each term of the query and 20 to
\* maxPossibleScore (the queries of the model have no expanded terms).
calculateEnhancedClusterRelevance(cluster, query) ==
    IF query = <<"">> \/ Trim(query) = <<"">> \/ query = <<"*">> THEN <<1, 1>>
    ELSE LET size == Len(cluster)
             totalScore ==
                 Sum([k \in 1..size |-> cluster[k].matched], 1..size)
                 + (IF size > 1 THEN Min(size * 2, 10) ELSE 0)
             maxPossibleScore ==
                 size * (55 * Len(ClusterQueryTerms(query)) + 20)
                 + (IF size > 1 THEN 10 ELSE 0)
         IN <<Min(totalScore, Max(maxPossibleScore, 1)), Max(maxPossibleScore, 1)>>

\* An inner loop that does not look at what was visited
RECURSIVE GrowCluster_Revisit(_, _, _, _, _)
GrowCluster_Revisit(memories, i, j, cluster, visited) ==
    IF j > Len(memories) THEN <<cluster, visited>>
    ELSE IF Absorbs(memories, i, j)
         THEN GrowCluster_Revisit(memories, i, j + 1, Append(cluster, memories[j]),
                                  visited \cup {j})
         ELSE GrowCluster_Revisit(memories, i, j + 1, cluster, visited)

\* The inner loop of the clustering from j on: the cluster of the seed i and
\* the memories visited
RECURSIVE GrowCluster(_, _, _, _, _)
GrowCluster(memories, i, j, cluster, visited) ==
    IF j > Len(memories) THEN <<cluster, visited>>
    ELSE IF j \in visited THEN GrowCluster(memories, i, j + 1, cluster, visited)
    ELSE IF Absorbs(memories, i, j)
         THEN GrowCluster(memories, i, j + 1, Append(cluster, memories[j]),
                          visited \cup {j})
         ELSE GrowCluster(memories, i, j + 1, cluster, visited)

\* The outer loop from i on
RECURSIVE GrowClusters(_, _, _, _, _)
GrowClusters(memories, query, i, visited, clusters) ==
    IF i > Len(memories) THEN clusters
    ELSE IF i \in visited THEN GrowClusters(memories, query, i + 1, visited, clusters)
    ELSE LET grown == GrowCluster(memories, i, i + 1, <<memories[i]>>,
                                  visited \cup {i})
         IN GrowClusters(memories, query, i + 1, grown[2],
                Append(clusters,
                       [memories |-> grown[1],
                        relevanceScore |->
                            calculateEnhancedClusterRelevance(grown[1], query)]))

\* clusters.sort((a, b) => b.relevanceScore - a.relevanceScore), stable
RECURSIVE InsertCluster(_, _)
InsertCluster(c, s) ==
    IF s = <<>> THEN <<c>>
    ELSE IF Head(s).relevanceScore[1] * c.relevanceScore[2]
                >= c.relevanceScore[1] * Head(s).relevanceScore[2]
         THEN <<Head(s)>> \o InsertCluster(c, Tail(s))
         ELSE <<c>> \o s

RECURSIVE SortClustersDesc(_, _)
SortClustersDesc(s, acc) ==
    IF s = <<>> THEN acc
    ELSE SortClustersDesc(Tail(s), InsertCluster(Head(s), acc))

clusterMemoriesEnhanced(memories, query) ==
    IF Len(memories) = 0 THEN <<>>
    ELSE IF Len(memories) = 1
    THEN <<[memories |-> memories,
            relevanceScore |-> calculateEnhancedClusterRelevance(memories, query)]>>
    ELSE SortClustersDesc(GrowClusters(memories, query, 1, {}, <<>>), <<>>)

MaxClusterMemories == 3

\* Six memories: the second shares with the first a tag only, the third the
\* category only, the fourth lies a day from it, the fifth has its TF-IDF
\* vector, and the sixth has nothing of it
ClusterKinds ==
    {[tags |-> <<"api">>, category |-> "decision", created |-> 0,
      tfidf |-> <<1, 0, 0>>, matched |-> 0],
     [tags |-> <<"api">>, category |-> "context", created |-> 10 * MinutesPerDay,
      tfidf |-> <<0, 1, 0>>, matched |-> 90],
     [tags |-> <<"db">>, category |-> "decision", created |-> 20 * MinutesPerDay,
      tfidf |-> <<0, 0, 1>>, matched |-> 30],
     [tags |-> <<"ui">>, category |-> "note", created |-> MinutesPerDay,
      tfidf |-> <<0, 1, 0>>, matched |-> 15],
     [tags |-> <<"ops">>, category |-> "reminder", created |-> 30 * MinutesPerDay,
      tfidf |-> <<1, 0, 0>>, matched |-> 45],
     [tags |-> <<>>, category |-> "note", created |-> 40 * MinutesPerDay,
      tfidf |-> <<0, 0, 0>>, matched |-> 0]}

\* The i-th memory of a list has the id i
ClusterLists ==
    UNION {{[i \in 1..n |->
                [id |-> i, tags |-> kinds[i].tags, category |-> kinds[i].category,
                 created |-> kinds[i].created, tfidf |-> kinds[i].tfidf,
                 matched |-> kinds[i].matched]] : kinds \in [1..n -> ClusterKinds]} :
            n \in 1..MaxClusterMemories}

ClusterQueries == {<<"">>, <<"postgres">>}

ClusterInputs ==
    {[memories |-> m, query |-> q] : m \in ClusterLists, q \in ClusterQueries}

InitCluster == Called("clusterMemoriesEnhanced", ClusterInputs)

ReturnCluster ==
    Return("clusterMemoriesEnhanced",
           clusterMemoriesEnhanced(probe.input[1].memories, probe.input[1].query))

SpecCluster == InitCluster /\ [][ReturnCluster]_vars

MaxDomainHints == 2

TemporalContexts == {"recent", "historical", "any"}

\* The domains of domainMap a query can hint at, in the order of the map
DomainHintLists ==
    {SelectSeq([i \in 1..Len(domainMap) |-> domainMap[i][1]], LAMBDA d : d \in S) :
        S \in {T \in SUBSET {domainMap[i][1] : i \in 1..Len(domainMap)} :
                  Cardinality(T) <= MaxDomainHints}}

\* What combineScores reads of a processed query
WeightInputs ==
    {[focus |-> f, temporalContext |-> t, domainHints |-> h] :
        f \in Focuses, t \in TemporalContexts, h \in DomainHintLists}

InitWeights == Called("combineScores", WeightInputs)

\* The weights combineScores multiplies the scores by
ReturnWeights == Return("combineScores", Weights(probe.input[1]))

SpecWeights == InitWeights /\ [][ReturnWeights]_vars

----------------------------------------------------------------------------
(* Properties of the sequential specification *)

\* Caller p's last call has returned a memory
Returned(p) == pc[p] = "idle" /\ ret[p].kind \in {"created", "consolidated"}

Ids(memories) == {memories[i].id : i \in 1..Len(memories)}

\* |words(a) /\ words(b)| and max(|words(a)|, |words(b)|)
CommonWords(a, b) == Cardinality(WordSet(a) \cap WordSet(b))
MostWords(a, b) == Max(Cardinality(WordSet(a)), Cardinality(WordSet(b)))

\* The second save of the consolidation scenario has returned: the store held
\* the single memory m, created 5 minutes before the call.
SecondSaveDone ==
    /\ Returned(1)
    /\ Len(loc[1].pre[2]) = 1
    /\ loc[1].sessionTime - loc[1].pre[2][1].created = 5

OneMergedEntry ==
    LET m == loc[1].pre[2][1]
    IN /\ Len(file) = 1
       /\ file[1].id = m.id
       /\ file[1].content = StrCat(StrCat(m.content, ContinuedMarker), loc[1].content)

\* C3 as stated: a second save 5 minutes after the first whose word overlap
\* with the first is at least 70% leaves exactly one entry, whose content is
\* both contents joined by the continuation marker.
C3_AtLeastSeventy ==
    (/\ SecondSaveDone
     /\ MostWords(loc[1].content, loc[1].pre[2][1].content) > 0
     /\ CommonWords(loc[1].content, loc[1].pre[2][1].content) * 10
            >= 7 * MostWords(loc[1].content, loc[1].pre[2][1].content))
        => OneMergedEntry

\* C3 as amended: a second save 5 minutes after the first whose word overlap
\* with the stored content of the first is strictly above 70% leaves exactly
\* one entry, the first one, whose content is both contents joined by the
\* continuation marker.
C3_AboveSeventy ==
    (/\ SecondSaveDone
     /\ CommonWords(loc[1].content, loc[1].pre[2][1].content) * 10
            > 7 * MostWords(loc[1].content, loc[1].pre[2][1].content))
        => OneMergedEntry

\* The overlap is 8 of 10 words, and the two contents were merged.
C3_Witness ==
    /\ SecondSaveDone
    /\ loc[1].content = ContentC
    /\ loc[1].pre[2][1].content = ContentA
    /\ OneMergedEntry

\* C5: a call with empty or whitespace-only content ends with the validation
\* error and the file is what it was before the call: no step of the call
\* follows the validation.
C5_EmptyContentRejected ==
    \A p \in Callers :
        (loc[p].content \in {ContentEmpty, ContentBlank} /\ ret[p].kind # "none")
            => /\ ret[p].kind = "error"
               /\ pc[p] = "idle"
               /\ <<fileState, file>> = loc[p].pre

\* A whitespace-only content was rejected while the store held a memory.
C5_Witness ==
    /\ loc[1].content = ContentBlank
    /\ ret[1].kind = "error"
    /\ Len(file) = 1

\* C6: a call with non-empty content never fails, whatever the embedding
\* backend does; when the embedding request failed the call goes on to write,
\* and once it has returned the file holds the returned memory, a new entry
\* having no embedding.
C6_EmbeddingFailureNeverAborts ==
    \A p \in Callers :
        /\ (ret[p].kind = "error") => loc[p].content \in {ContentEmpty, ContentBlank}
        /\ (loc[p].embeddingReply = "failed") =>
              /\ pc[p] \in {"write", "loadAll", "writeAll", "idle"}
              /\ loc[p].memory # None
              /\ Returned(p) =>
                    /\ ret[p].memory = loc[p].memory
                    /\ \E i \in 1..Len(file) : file[i] = ret[p].memory[1]
                    /\ (ret[p].kind = "created") =>
                          /\ ret[p].memory[1].embedding = None
                          /\ ret[p].memory[1].content # <<"">>

\* Both embedding requests of two calls failed, and both memories are stored.
C6_Witness ==
    /\ Returned(1)
    /\ ret[1].kind = "created"
    /\ loc[1].embeddingReply = "failed"
    /\ Len(file) = 2
    /\ \A i \in 1..2 : file[i].embedding = None

\* The session id given to a new memory is one no stored memory carries.
FreshSession(memory, stored) ==
    \A i \in 1..Len(stored) :
        memory.session_id # stored[i].session_id /\ memory.session_id # stored[i].id

\* The most recent memory of the store the call started from
NewestOf(stored) ==
    CHOOSE m \in Range(stored) : \A k \in Range(stored) : k.created <= m.created

C18_EmbeddingModelIffEmbedding ==
    /\ \A i \in 1..Len(file) :
          (file[i].embedding = None) = (file[i].embedding_model = None)
    /\ \A p \in Callers :
          Returned(p) =>
             (ret[p].memory[1].embedding = None) = (ret[p].memory[1].embedding_model = None)

\* A memory created without an embedding was consolidated while the embedding
\* backend failed again: it is stored with its new content, without embedding
\* and without embedding_model.
C18_Witness ==
    /\ Returned(1)
    /\ ret[1].kind = "consolidated"
    /\ loc[1].embeddingReply = "failed"
    /\ Len(file) = 1
    /\ file[1] = ret[1].memory[1]
    /\ file[1].content # loc[1].pre[2][1].content
    /\ file[1].embedding = None
    /\ file[1].embedding_model = None

\* String a is a prefix of string b: the pieces of a before its last are the
\* pieces of b, and the last piece of a starts the piece of b at its place.
\* No piece of the vocabulary starts another one, so the last piece of a is
\* that piece of b or empty.
StrPrefix(a, b) ==
    /\ Len(a) <= Len(b)
    /\ \A i \in 1..(Len(a) - 1) : a[i] = b[i]
    /\ a[Len(a)] = b[Len(a)] \/ a[Len(a)] = ""

\* C19: in a sequence of saves, a step that leaves a memory stored leaves
\* its earlier content as a prefix of its later content; prefix being
\* transitive, the content at any earlier time is a prefix of the content at
\* any later time.
C19_ContentOnlyAppended ==
    [][\A i \in 1..Len(file), j \in 1..Len(file') :
          file[i].id = file'[j].id => StrPrefix(file[i].content, file'[j].content)]_vars

\* A save was consolidated into the stored memory: the memory is stored under
\* its id with strictly more content than before the call.
C19_Witness ==
    /\ Returned(1)
    /\ ret[1].kind = "consolidated"
    /\ \E i \in 1..Len(loc[1].pre[2]), j \in 1..Len(file) :
          /\ loc[1].pre[2][i].id = file[j].id
          /\ StrPrefix(loc[1].pre[2][i].content, file[j].content)
          /\ Len(loc[1].pre[2][i].content) < Len(file[j].content)

----------------------------------------------------------------------------
(* Properties of the long run *)

\* C1: whatever was saved, by saveSessionMemory or by saveSessionMemories,
\* the file never holds more than 50 memories.
C1_AtMostFiftyPersisted == Len(file) <= PersistCap

\* The file is full, and a save that followed has read all of it.
C1_Witness ==
    /\ Len(file) = PersistCap
    /\ pc[1] = "write"
    /\ Len(loc[1].existingMemories) = PersistCap

\* The new memory in front of the memories the call loaded
Inserted(p) == <<loc[p].memory[1]>> \o loc[p].existingMemories

\* C2: in a run of saves of distinct texts from the empty store, the working
\* set handed to the store never has more than 40 memories, and an insertion
\* that makes 41 or more keeps exactly 35 of them, none older than a dropped
\* one.
C2_WorkingSetCapacity ==
    /\ rare = 0 => Len(file) <= WorkingCap
    /\ (rare = 0 /\ pc[1] = "write") =>
          LET kept == loc[1].updatedMemories
              dropped == Range(Inserted(1)) \ Range(kept)
          IN /\ Len(kept) <= WorkingCap
             /\ Range(kept) \subseteq Range(Inserted(1))
             /\ Len(Inserted(1)) > WorkingCap =>
                   /\ Len(kept) = WorkingKeep
                   /\ Cardinality(Range(kept)) = WorkingKeep
                   /\ \A k \in Range(kept), d \in dropped : d.created <= k.created

\* The 41st save: 40 memories were loaded and 35 are handed to the store.
C2_Witness ==
    /\ rare = 0
    /\ pc[1] = "write"
    /\ Len(loc[1].existingMemories) = WorkingCap
    /\ Len(loc[1].updatedMemories) = WorkingKeep

\* C20: a step of a save removes a stored memory only when it writes a
\* working set whose insertion made more than 40 entries, and a memory it
\* removes is not newer than any memory it keeps; the steps of a
\* consolidation and of a save that stays at or below 40 remove none.
C20_RemovedOnlyByEviction ==
    [][(pc[1] # "idle" /\ Ids(file) \ Ids(file') # {}) =>
          /\ pc[1] = "write"
          /\ Len(Inserted(1)) > WorkingCap
          /\ \A i \in 1..Len(file), j \in 1..Len(file') :
                file[i].id \notin Ids(file') => file[i].created <= file'[j].created]_vars

\* The 41st save has returned: 40 memories were loaded, and some of them are
\* not stored any more.
C20_Witness ==
    /\ Returned(1)
    /\ ret[1].kind = "created"
    /\ Len(loc[1].existingMemories) = WorkingCap
    /\ Len(file) = WorkingKeep
    /\ Ids(loc[1].existingMemories) \ Ids(file) # {}

\* C4: a consolidating save takes no new identifier and leaves the number of
\* stored memories as it was; the target keeps its id, session_id and
\* metadata, and every other memory is stored as it was before the call.
C4_ConsolidationFrame ==
    (pc[1] = "idle" /\ ret[1].kind = "consolidated") =>
        LET before == loc[1].pre[2]
            target == loc[1].target[1]
        IN /\ nextUuid = loc[1].uuid
           /\ Len(file) = Len(before)
           /\ \A i \in 1..Len(before) :
                 \E j \in 1..Len(file) :
                    /\ file[j].id = before[i].id
                    /\ \A k \in 1..Len(file) : file[k].id = before[i].id => k = j
                    /\ IF before[i].id = target.id
                       THEN /\ file[j].session_id = before[i].session_id
                            /\ file[j].metadata = before[i].metadata
                       ELSE file[j] = before[i]

\* A memory that was not the newest one was consolidated in a full working set.
C4_Witness ==
    /\ pc[1] = "idle"
    /\ ret[1].kind = "consolidated"
    /\ Len(file) >= WorkingKeep
    /\ file[2].id = loc[1].target[1].id
    /\ file[2].content # loc[1].target[1].content
    /\ file[2].created > file[1].created

\* s holds the memories of t, each as often as t does
SameMemories(s, t) ==
    /\ Len(s) = Len(t)
    /\ \A m \in Range(s) \cup Range(t) :
          Cardinality({i \in 1..Len(s) : s[i] = m})
              = Cardinality({i \in 1..Len(t) : t[i] = m})

\* C16: loadSessionMemories gives the empty collection when the file is
\* absent or does not parse, and otherwise the memories of the file, newest
\* first, in whatever order the file holds them; a save that has loaded holds
\* such a collection.
C16_LoadSortedOrEmpty ==
    \A loaded \in {loadSessionMemories} :
        /\ fileState # "valid" => loaded = <<>>
        /\ fileState = "valid" =>
              /\ SameMemories(loaded, file)
              /\ \A i \in 1..(Len(loaded) - 1) : loaded[i].created >= loaded[i + 1].created
        /\ pc[1] = "session" =>
              /\ loc[1].pre[1] # "valid" => loc[1].existingMemories = <<>>
              /\ SameMemories(loc[1].existingMemories, loc[1].pre[2])
              /\ \A i \in 1..(Len(loc[1].existingMemories) - 1) :
                    loc[1].existingMemories[i].created
                        >= loc[1].existingMemories[i + 1].created

\* A save has loaded the 50 memories of a file that holds them oldest first:
\* it has them newest first.
C16_Witness ==
    /\ pc[1] = "session"
    /\ Len(file) = PersistCap
    /\ file[1].created < file[PersistCap].created
    /\ loc[1].existingMemories[1] = file[PersistCap]

\* C17: saveSessionMemories, given more than 50 memories in any order, stores
\* 50 of them, and none it leaves out is more recent than one it stores.
C17_StoresFiftyMostRecent ==
    [][\A n \in CollectionSizes, newestFirst \in BOOLEAN :
          LET memories == Collection(n, newestFirst)
          IN (/\ n > PersistCap
              /\ pc[1] = "idle"
              /\ nextUuid' = nextUuid + n + 1
              /\ Range(file') \subseteq Range(memories))
                 => /\ Len(file') = PersistCap
                    /\ \A m \in Range(memories) \ Range(file') :
                          \A k \in Range(file') : m.created <= k.created]_vars

----------------------------------------------------------------------------
(* Properties of two overlapping calls *)

Stored(memory) == \E i \in 1..Len(file) : file[i].id = memory.id

BothCreated == \A p \in Callers : Returned(p) /\ ret[p].kind = "created"

\* C7: two calls that both returned a new memory can leave only one of the
\* two in the file.  A memory is lost only to a call that overlapped the call
\* which made it: the other call had started before the memory was written
\* and had loaded the file without it, and its own memory is in the file.
C7_LostOnlyToOverlappingCall ==
    BothCreated =>
        \A p \in Callers : \A q \in Callers \ {p} :
            ~Stored(ret[p].memory[1]) =>
                /\ Stored(ret[q].memory[1])
                /\ ret[p].memory[1] \notin Range(loc[q].pre[2])
                /\ ret[p].memory[1] \notin Range(loc[q].existingMemories)

\* Both calls saved texts with no word in common and returned their memories,
\* and the file holds one memory.
C7_Witness ==
    /\ BothCreated
    /\ loc[1].content # loc[2].content
    /\ Len(file) = 1

\* C27: in every state, those reached by overlapping calls included, no two
\* memories of the file have the same id.
C27_StoredIdsDistinct ==
    \A i \in 1..Len(file), j \in 1..Len(file) : i # j => file[i].id # file[j].id

\* Two calls that both started on the empty store have returned, one with a
\* new memory and one with the consolidation into it, or both with a new
\* memory, and the file holds what both of them wrote.
C27_Witness ==
    /\ \A p \in Callers : Returned(p) /\ loc[p].pre[2] = <<>>
    /\ \/ Len(file) = 2
       \/ \E p \in Callers : ret[p].kind = "consolidated" /\ file = <<ret[p].memory[1]>>

----------------------------------------------------------------------------
(* Properties of a search *)

\* a >= b for two fractions with positive denominators
FractionAtLeast(a, b) == a[1] * b[2] >= b[1] * a[2]

Searched == found.path # "none"

\* C9: a search returns at most limit results, and no result has a greater
\* relevanceScore than the one before it.
C9_AtMostLimitNonIncreasing ==
    Searched =>
        /\ Len(found.results) <= found.limit
        /\ \A i \in 1..Len(found.results) : found.results[i].relevanceScore[2] > 0
        /\ \A i \in 1..(Len(found.results) - 1) :
              FractionAtLeast(found.results[i].relevanceScore,
                              found.results[i + 1].relevanceScore)

\* Three memories are stored, two were asked for, and the first of the two
\* results has the greater score; the stored order is another one.
C9_Witness ==
    /\ found.path = "ranked"
    /\ Len(file) = 3
    /\ found.limit = 2
    /\ Len(found.results) = 2
    /\ ~FractionAtLeast(found.results[2].relevanceScore, found.results[1].relevanceScore)
    /\ found.results[1].memory # loadSessionMemories[1]

\* C10 as stated: the first result of every search that returns a result has
\* relevanceScore 1.0.
C10_TopScoreIsOne ==
    (Searched /\ Len(found.results) >= 1) =>
        found.results[1].relevanceScore[1] = found.results[1].relevanceScore[2]

\* C10 as amended: the first result has relevanceScore 1.0 when the query is
\* blank or some memory reaches the threshold; when none does, the first
\* result has its raw score over 100, raised to 0.1, which is less than 0.25.
C10_TopScoreIsOneUnlessFallback ==
    (Searched /\ Len(found.results) >= 1) =>
        LET top == found.results[1].relevanceScore
        IN IF found.path = "fallback"
           THEN /\ FractionAtLeast(top, <<1, 10>>)
                /\ ~FractionAtLeast(top, <<1, 4>>)
           ELSE top[1] = top[2]

\* No memory reached the threshold, and the best one has a score above the
\* floor of 0.1.
C10_Witness ==
    /\ found.path = "fallback"
    /\ Len(found.results) = 2
    /\ ~FractionAtLeast(<<1, 10>>, found.results[1].relevanceScore)

\* The relevance of a memory for the last search, before normalisation, in
\* hundredths
RawScore(memory) ==
    ScoredResult(memory, preprocessQuery(found.query), found.embedding,
                 found.time).relevanceScore

\* C11: every result of a search has a relevanceScore from 0 to 1, whether it
\* answers an empty query, survived the threshold or is a fallback, and also
\* when the relevance before normalisation is negative.
C11_ScoreWithinUnitInterval ==
    Searched =>
        \A i \in 1..Len(found.results) :
            LET score == found.results[i].relevanceScore
            IN /\ score[2] > 0
               /\ score[1] >= 0
               /\ score[1] <= score[2]

\* The embedding of the query is opposite to that of a memory whose relevance
\* is negative, and the memory is returned with the score 0.1.
C11_Witness ==
    /\ found.path = "fallback"
    /\ found.embedding = Some(<<-1, 0>>)
    /\ \E i \in 1..Len(found.results) :
          /\ found.results[i].relevanceScore = <<1000, 10000>>
          /\ RawScore(found.results[i].memory) < 0

\* Two memories of one session that calculateAdvancedContentSimilarity finds
\* more than 0.85 alike for the query of the last search
NearDuplicates(memory1, memory2) ==
    /\ memory1.id # memory2.id
    /\ memory1.session_id = memory2.session_id
    /\ SimilarityAbove(memory1.content, memory2.content,
                       preprocessQuery(found.query), 85)

\* C12: no search returns two memories of the same session whose content
\* similarity exceeds 0.85, whichever path gave the results.
C12_NoSameSessionDuplicates ==
    Searched =>
        \A i \in 1..Len(found.results) : \A j \in 1..Len(found.results) :
            ~NearDuplicates(found.results[i].memory, found.results[j].memory)

\* The stored memories as the last search scored them, before ranking
ScoredMemories ==
    performEnhancedSearch(loadSessionMemories, preprocessQuery(found.query),
                          found.embedding, found.time)

\* No result of searchResults reaches the threshold of the last search
NoneReachesThreshold(searchResults) ==
    LET threshold == Only({determineRelevanceThreshold(searchResults,
                                                       preprocessQuery(found.query))})
    IN \A i \in 1..Len(searchResults) : ~MeetsThreshold(searchResults[i], threshold)

\* The relevance that searchResults gives a memory
RawOf(searchResults, memory) ==
    Only({searchResults[i].relevanceScore :
             i \in {k \in 1..Len(searchResults) : searchResults[k].memory = memory}})

\* C13: a search with a query that is not blank, over a store that holds a
\* memory, returns a result.  When no memory reaches the threshold it returns
\* the min(2, limit) memories of the highest relevance (all of them when the
\* store holds fewer), each with its relevance over 100 and at least 0.1.
C13_FallbackReturnsBest ==
    (Searched /\ Trim(found.query) # <<"">> /\ Len(file) >= 1) =>
        /\ Len(found.results) >= 1
        /\ \A searchResults \in {ScoredMemories} :
              NoneReachesThreshold(searchResults) =>
                 LET returned == {found.results[i].memory : i \in 1..Len(found.results)}
                 IN /\ Len(found.results) =
                          Min(Min(FallbackCount, found.limit), Len(file))
                    /\ Cardinality(returned) = Len(found.results)
                    /\ returned \subseteq Range(file)
                    /\ \A i \in 1..Len(found.results) :
                          found.results[i].relevanceScore =
                              <<Max(RawOf(searchResults, found.results[i].memory), 1000),
                                10000>>
                    /\ \A m \in Range(file) \ returned : \A r \in returned :
                          RawOf(searchResults, m) <= RawOf(searchResults, r)

\* Three memories are stored and none reaches the threshold: of the five
\* results asked for two are returned, and the memory left out has a lower
\* relevance than one of them.
C13_Witness ==
    /\ Searched
    /\ Len(file) = 3
    /\ found.limit = 5
    /\ Len(found.results) = 2
    /\ NoneReachesThreshold(ScoredMemories)
    /\ \E m \in Range(file) :
          /\ \A i \in 1..2 : found.results[i].memory # m
          /\ RawScore(m) < RawScore(found.results[1].memory)

\* C14: an empty or whitespace-only query over a store of n >= 1 memories
\* returns min(limit, n) memories, the most recently created ones, newest
\* first, each with relevanceScore 1.0 and no matched term, and the embedding
\* backend is not called.
C14_BlankQueryReturnsRecent ==
    (Searched /\ Trim(found.query) = <<"">> /\ Len(file) >= 1) =>
        LET returned == {found.results[i].memory : i \in 1..Len(found.results)}
        IN /\ Len(found.results) = Min(found.limit, Len(file))
           /\ Cardinality(returned) = Len(found.results)
           /\ returned \subseteq Range(file)
           /\ \A i \in 1..Len(found.results) :
                 /\ found.results[i].relevanceScore = <<1, 1>>
                 /\ found.results[i].matchedTerms = <<>>
           /\ \A i \in 1..(Len(found.results) - 1) :
                 found.results[i].memory.created >= found.results[i + 1].memory.created
           /\ \A m \in Range(file) \ returned : \A r \in returned :
                 m.created <= r.created
           /\ ~found.asked

\* A whitespace-only query for one memory: the file holds two, the older one
\* first, and the newer one is returned.
C14_Witness ==
    /\ Searched
    /\ found.query = QueryBlank
    /\ found.limit = 1
    /\ Len(file) = 2
    /\ file[1].created < file[2].created
    /\ Len(found.results) = 1
    /\ found.results[1].memory = file[2]

----------------------------------------------------------------------------
(* Properties of a search made twice *)

Repeated == found.previous # None

\* The ages at which calculateTemporalScore changes its value, in days
AgeBoundaries == {1, 7, 30, 90}

\* No stored memory passes one of the ages between the two searches
SameAges ==
    \A m \in Range(file) : \A days \in AgeBoundaries :
        LET age1 == found.previous[1].time - m.created
            age2 == found.time - m.created
        IN /\ (age1 < days * MinutesPerDay) = (age2 < days * MinutesPerDay)
           /\ (age1 > days * MinutesPerDay) = (age2 > days * MinutesPerDay)

\* Two answers hold the same memories in the same order with the same scores
SameResults(results1, results2) ==
    /\ Len(results1) = Len(results2)
    /\ \A i \in 1..Len(results1) :
          /\ results1[i].memory = results2[i].memory
          /\ results1[i].relevanceScore[1] * results2[i].relevanceScore[2]
                = results2[i].relevanceScore[1] * results1[i].relevanceScore[2]

----------------------------------------------------------------------------
(* Properties of the order of the file *)

\* C21: after any sequence of saves, consolidations into a memory that is
\* not the newest one included, the file holds its memories newest first by
\* created.
C21_PersistedNewestFirst ==
    \A i \in 1..(Len(file) - 1) : file[i].created >= file[i + 1].created

----------------------------------------------------------------------------
(* Properties of the long run with nothing but saves *)

\* C26: from the empty store and with saveSessionMemory only, the file never
\* holds more than 40 memories, no collection handed to saveSessionMemories
\* is long enough to be cut at 50, and a call that found 40 memories stored
\* and created one leaves exactly 35.
C26_NeverAboveFortyStored ==
    /\ Len(file) <= 40
    /\ pc[1] \in {"write", "writeAll"} => Len(loc[1].updatedMemories) <= 40
    /\ (Returned(1) /\ ret[1].kind = "created" /\ Len(loc[1].pre[2]) = 40) =>
          Len(file) = 35

\* A call that found 40 memories stored has created one and returned
C26_Witness ==
    /\ Returned(1)
    /\ ret[1].kind = "created"
    /\ Len(loc[1].pre[2]) = 40
    /\ Len(file) = 35
    /\ file[1] = ret[1].memory[1]

----------------------------------------------------------------------------
(* Properties of a few saves of texts that are alike *)

\* The positions of the loaded memories that were created less than 30
\* minutes before the consolidation check of the call and share more than
\* 70% of their words with the submitted content
Candidates ==
    {i \in 1..Len(loc[1].existingMemories) :
        /\ loc[1].sessionTime - loc[1].existingMemories[i].created < 30
        /\ CommonWords(loc[1].content, loc[1].existingMemories[i].content) * 10
               > 7 * MostWords(loc[1].content, loc[1].existingMemories[i].content)}

\* C24: the target of a consolidation was created less than 30 minutes
\* before the check, and once the check is made, if loaded memories inside
\* the window share more than 70% of their words with the new content, the
\* target is one of them and none of them was created after it.
C24_TargetRecentAndNewest ==
    /\ loc[1].target # None => loc[1].sessionTime - loc[1].target[1].created < 30
    /\ (pc[1] \notin {"load", "session"} /\ Candidates # {}) =>
          /\ loc[1].target # None
          /\ \E i \in Candidates : loc[1].existingMemories[i] = loc[1].target[1]
          /\ \A i \in Candidates :
                loc[1].existingMemories[i].created <= loc[1].target[1].created

\* A call found two loaded memories inside the window, created at different
\* times, that share more than 70% of their words with its content, and it
\* has a target.
C24_Witness ==
    /\ pc[1] \notin {"load", "session"}
    /\ Cardinality(Candidates) = 2
    /\ \E i, j \in Candidates :
          loc[1].existingMemories[i].created > loc[1].existingMemories[j].created
    /\ loc[1].target # None

\* C25: a consolidation whose embedding request failed returns and stores
\* the target with the embedding and the embedding_model it had; one whose
\* request succeeded returns and stores it with the new vector and the
\* name of the present model.
C25_EmbeddingKeptOrReplaced ==
    (Returned(1) /\ ret[1].kind = "consolidated") =>
        \A target \in {loc[1].target[1]}, merged \in {ret[1].memory[1]} :
            /\ \E i \in 1..Len(file) : file[i] = merged
            /\ merged.id = target.id
            /\ loc[1].embeddingReply = "failed" =>
                  /\ merged.embedding = target.embedding
                  /\ merged.embedding_model = target.embedding_model
            /\ loc[1].embeddingReply = "ok" =>
                  /\ merged.embedding = Some(MergedEmbedding)
                  /\ merged.embedding_model = Some(AI_EMBEDDING_MODEL)

\* A consolidation into a memory that has an embedding has returned after
\* its embedding request failed: the memory has the embedding it had.
C25_Witness ==
    /\ Returned(1)
    /\ ret[1].kind = "consolidated"
    /\ loc[1].embeddingReply = "failed"
    /\ loc[1].target[1].embedding # None
    /\ loc[1].target[1].embedding # Some(MergedEmbedding)
    /\ ret[1].memory[1].embedding = loc[1].target[1].embedding
    /\ ret[1].memory[1].content # loc[1].target[1].content

\* C28: when a call of a sequence of calls, each made after the one before
\* has ended, has returned a memory, the first memory that
\* loadSessionMemories gives is the returned one, and its content contains
\* the content submitted.
C28_ReturnedIsNewestLoaded ==
    Returned(1) =>
        \A loaded \in {loadSessionMemories} :
            /\ loaded # <<>>
            /\ loaded[1] = ret[1].memory[1]
            /\ IncludesSeq(loaded[1].content, loc[1].content)

\* A call was consolidated into a memory that is not the first of the file:
\* the file holds the returned memory after another one, and
\* loadSessionMemories gives it first.
C28_Witness ==
    /\ Returned(1)
    /\ ret[1].kind = "consolidated"
    /\ Len(file) > 1
    /\ file[1] # ret[1].memory[1]
    /\ loadSessionMemories[1] = ret[1].memory[1]
    /\ ret[1].memory[1].content # loc[1].content

----------------------------------------------------------------------------
(* Properties of the functions called on their own *)

\* The function has returned
Gave(fn) == probe.fn = fn /\ probe.output # None

\* The hits of a category in a content, the most hits of any category, and
\* the first category declared that has the most
Hits(content, cat) == IndicatorMatches(LowerStr(content), cat)

MostHits(content) ==
    CHOOSE n \in 0..7 :
        /\ \E i \in 1..Len(CategoryOrder) : Hits(content, CategoryOrder[i]) = n
        /\ \A i \in 1..Len(CategoryOrder) : Hits(content, CategoryOrder[i]) <= n

FirstWithMost(content) ==
    CategoryOrder[CHOOSE i \in 1..Len(CategoryOrder) :
        /\ Hits(content, CategoryOrder[i]) = MostHits(content)
        /\ \A j \in 1..(i - 1) : Hits(content, CategoryOrder[j]) < MostHits(content)]

\* C22 as stated: the category is the first category declared among those
\* with the most indicator hits, also when no category has a hit.
C22_FirstDeclaredOfMostHits ==
    Gave("determineCategory") => probe.output[1] = FirstWithMost(probe.input[1])

\* C22 as amended: the category is the first category declared among those
\* with the most indicator hits when some category has a hit, and
\* reflection when none has.
C22_FirstDeclaredOrReflection ==
    Gave("determineCategory") =>
        probe.output[1] = IF MostHits(probe.input[1]) = 0 THEN "reflection"
                          ELSE FirstWithMost(probe.input[1])

\* A content that starts with an indicator of reflection and has as many of
\* discovery was classified: discovery, declared first, is the category.
C22_Witness ==
    /\ Gave("determineCategory")
    /\ probe.input[1][1] = "thinking"
    /\ Hits(probe.input[1], "discovery") = MostHits(probe.input[1])
    /\ Hits(probe.input[1], "reflection") = MostHits(probe.input[1])
    /\ probe.output[1] = "discovery"

\* The base value of a focus, in hundredths, and the sum and the top of the
\* scores of a list of results
FocusBase(focus) ==
    CASE focus = "broad" -> 1000
      [] focus = "specific" -> 2500
      [] OTHER -> 1500

ScoreSum(results) ==
    Sum([i \in 1..Len(results) |-> results[i].relevanceScore], 1..Len(results))

TopScore(results) ==
    CHOOSE m \in {results[i].relevanceScore : i \in 1..Len(results)} :
        \A i \in 1..Len(results) : results[i].relevanceScore <= m

\* C23: for a list of results, the threshold is 10 for broad focus, 25 for
\* specific focus and 15 otherwise, except that it is 30% of the average
\* score when the top score is above 3 times the average and 30% of the
\* average is above that base value; it is never below the base value.
C23_ThresholdAtLeastBase ==
    Gave("determineRelevanceThreshold") =>
        \A results \in {probe.input[1].results},
           base \in {FocusBase(probe.input[1].processedQuery.focus)},
           threshold \in {probe.output[1]} :
            LET n == Len(results)
                adaptive == /\ TopScore(results) * n > 3 * ScoreSum(results)
                            /\ 3 * ScoreSum(results) > 10 * n * base
            IN /\ threshold[2] > 0
               /\ threshold[1] >= base * threshold[2]
               /\ adaptive => threshold[1] * 10 * n = 3 * ScoreSum(results) * threshold[2]
               /\ ~adaptive => threshold[1] = base * threshold[2]

\* The threshold of three results for a query of specific focus was
\* computed: the top score is above 3 times the average, 30% of the average
\* is above 25, and the threshold is above 25.
C23_Witness ==
    /\ Gave("determineRelevanceThreshold")
    /\ probe.input[1].processedQuery.focus = "specific"
    /\ Len(probe.input[1].results) = 3
    /\ TopScore(probe.input[1].results) * 3 > 3 * ScoreSum(probe.input[1].results)
    /\ 3 * ScoreSum(probe.input[1].results) > 30 * 2500
    /\ probe.output[1][1] > 2500 * probe.output[1][2]

C30_WeightsSumToOne ==
    Gave("combineScores") =>
        LET weights == probe.output[1]
        IN /\ weights.semantic + weights.keyword + weights.context
                 + weights.temporal + weights.metadata = 100
           /\ \A w \in {"semantic", "keyword", "context", "temporal", "metadata"} :
                  weights[w] > 0

====
